---- MODULE Spec2Model ----
(***************************************************************************)
(* Timeline store, timeline interaction state machine, camera targeting    *)
(* and capture orchestration of Cursor Flow (App.tsx, kept in src/start.sh *)
(* from line 110 on, and components/EditorCanvas.tsx).                     *)
(*                                                                         *)
(* Times are JavaScript numbers (seconds) in the code.  Here a time is an  *)
(* integer number of ticks, TicksPerSecond ticks to the second; one tick   *)
(* is one pixel of the timeline at the default scale of 80 px/s.  The      *)
(* pointer positions and the timeline scales of the model are chosen so    *)
(* that every pixel-to-time conversion is exact, so the arithmetic is the  *)
(* real-number arithmetic of the code without floating-point rounding.     *)
(*                                                                         *)
(* The window delivers pointer events in any order: the handlers do not    *)
(* check that a press follows a release.                                   *)
(***************************************************************************)
EXTENDS Integers, Sequences, FiniteSets, TLC

VARIABLES
    clips,           \* useState<VideoClip[]>        (start.sh:314)
    zooms,           \* useState<ZoomEvent[]>        (start.sh:310)
    selectedClipId,  \* useState<string | null>      (start.sh:317), 0 = null
    selectedZoomId,  \* useState<string | null>      (start.sh:311), 0 = null
    currentTime,     \* useState(0)                  (start.sh:278), ticks
    timelineScale,   \* useState(80)                 (start.sh:326), px per second
    dragState,       \* useState<DragState | null>   (start.sh:332)
    listener,        \* the dragState captured by the window mousemove/mouseup
                     \* handlers currently attached (start.sh:398-460)
    nextId,          \* the next identity crypto.randomUUID() hands out
    config,          \* useState<PhysicsConfig>     (start.sh:264)
    contentScale,    \* useState(0.95)              (start.sh:270), hundredths
    aspectRatio,     \* useState<AspectRatio>       (start.sh:273)
    showWindowFrame, \* useState(true)              (start.sh:274)
    targetCamX,      \* useMotionValue(0)           (EditorCanvas.tsx:109)
    targetCamY,      \* useMotionValue(0)           (EditorCanvas.tsx:110)
    targetScaleMV,   \* useMotionValue(1)           (EditorCanvas.tsx:111), hundredths
    springPhysics,   \* the options handed to the three useSpring calls of the
                     \* last render (EditorCanvas.tsx:129-131)
    isElectron,      \* window.electronAPI is there
    backendAvailable,\* useState<boolean | null>    (start.sh:288)
    isPlaying,       \* useState(false)             (start.sh:279)
    previousTimeRef, \* useRef<number | null>       (start.sh:336), TRUE = a time
    isExporting,     \* useState(false)             (start.sh:283)
    isCaptureMode,   \* useState(false)             (start.sh:289)
    isRecording,     \* useState(false)             (start.sh:282)
    showExportModal, \* useState(false)             (start.sh:285)
    exportRecorderRef, \* useRef<MediaRecorder | null> (start.sh:305), TRUE = a recorder
    exportRun,       \* the run of handleExport / handleBackendExport: where it
                     \* waits, its path, how it ended
    capture,         \* the run of captureEditedTimeline: where it waits, its
                     \* promise, its stream, its recorder, its stop closures
    recordings,      \* the runs of startRecording, in the order of the clicks:
                     \* where each waits, its stream, its recorder, how it ended
    mediaRecorderRef, \* useRef<MediaRecorder | null> (start.sh:304): the run
                     \* whose recorder it holds, 0 = null
    exportProgress,  \* useState(0)                (start.sh:286), percent
    exportStatus,    \* useState('')               (start.sh:287)
    runs,            \* number of exports and recordings begun so far
    now,             \* the clock handed to animation frames, ticks
    previousTime,    \* the time held by previousTimeRef when it holds one
    sessionFrame,    \* history: the time of the previous animation frame of
                     \* the current play session, NoFrame when there is none
    savedProject,    \* the snapshot handed to the last save (start.sh:1051-1068)
    isAnalyzingZooms, \* useState(false)           (start.sh:312)
    analysis,        \* the run of autoGenerateZooms waiting for suggestions
    appearance,      \* currentPreset, blurEnabled, background, backgroundBlur,
                     \* showCamera, borderRadius, showKeystrokes
                     \* (start.sh:265-275)
    job,             \* the run of processVideoWithProgress and the processing
                     \* job it drives (electron.d.ts:407-444)
    exportCursorData, \* exportCursorDataRef.current (start.sh:307): the pointer
                     \* samples, each with the capture whose listener pushed it
    mouseListeners,  \* the 'mouse-position' handlers attached to ipcRenderer
                     \* (preload.js:17-21), in the order of their registration
    mainTracking,    \* main process: mouseTrackingInterval, the live interval
                     \* timers, lastX/lastY of the running timer, and the
                     \* positions sent (main.js:59-88)
    layout,          \* containerWidth/containerHeight and windowW/windowH/
                     \* windowContentH of the last measured render of the
                     \* canvas (EditorCanvas.tsx:166, 210), in 1/DimUnit px
    steps,           \* number of events handled so far
    lastEvent,       \* history: the event handled by the last step
    hist             \* history: the timeline when the current clip/zoom drag began

storeVars == <<clips, zooms, selectedClipId, selectedZoomId, currentTime,
               timelineScale, dragState, listener, nextId>>

cameraInputs == <<config, contentScale, aspectRatio, showWindowFrame>>

cameraVars == <<targetCamX, targetCamY, targetScaleMV, springPhysics>>

captureVars == <<isElectron, backendAvailable, isPlaying, previousTimeRef,
                 isExporting, isCaptureMode, isRecording, showExportModal,
                 exportRecorderRef, exportRun, capture, recordings, mediaRecorderRef,
                 exportProgress, exportStatus, runs>>

clockVars == <<now, previousTime, sessionFrame>>

projectVars == <<savedProject, isAnalyzingZooms, analysis, appearance>>

trackingVars == <<exportCursorData, mouseListeners, mainTracking>>

vars == <<storeVars, cameraInputs, cameraVars, captureVars, clockVars, projectVars,
          job, layout, trackingVars, steps, lastEvent, hist>>

----------------------------------------------------------------------------
(* Bounds of the model *)

MaxSteps == 4
MaxClips == 3
MaxZooms == 2
MaxPolls == 2

(* Program constants *)

TicksPerSecond == 80
DEFAULT_DURATION == 15

\* Pointer positions, as content x (clientX - rect.left + scrollLeft - 16), px.
PointerXs == {-80, 4, 320, 400}
\* Positions of the timeline zoom slider (min 40, max 200, step 5).
TimelineScales == {40, 80}

Seconds(n) == n * TicksPerSecond
HalfSecond == TicksPerSecond \div 2
MinSplit == TicksPerSecond \div 10

Max(a, b) == IF a >= b THEN a ELSE b
Min(a, b) == IF a <= b THEN a ELSE b

\* px / timelineScale, in ticks
PxToTicks(px, scale) == (px * TicksPerSecond) \div scale
\* seconds * timelineScale, in px
TicksToPx(t, scale) == (t * scale) \div TicksPerSecond

----------------------------------------------------------------------------
(* Data *)

NoDrag ==
    [type |-> "none", id |-> 0, mode |-> "none", startX |-> 0,
     initialStart |-> 0, initialDuration |-> 0]

PlayheadDrag ==
    [type |-> "playhead", id |-> 0, mode |-> "none", startX |-> 0,
     initialStart |-> 0, initialDuration |-> 0]

ItemDrag(type, id, mode, contentX, start, dur) ==
    [type |-> type, id |-> id, mode |-> mode, startX |-> contentX,
     initialStart |-> start, initialDuration |-> dur]

\* No export and no capture is on its way.
NoReply == [status |-> "none", error |-> ""]

NoExport ==
    [pc |-> "idle", path |-> "none", outcome |-> "none", playbackEnded |-> FALSE,
     message |-> "", reply |-> NoReply]

\* bounds before getWindowBounds has answered, and its answer null
NoBounds == [null |-> TRUE, x |-> 0, y |-> 0, width |-> 0, height |-> 0]

NoCapture ==
    [pc |-> "idle", promise |-> "none", stream |-> "none", recorder |-> "none",
     stopMouseTracking |-> "null", stopMouseListener |-> "null",
     run |-> 0, captureStart |-> 0, bounds |-> NoBounds]

\* lastX, lastY of a timer that has sent nothing yet
NoPosition == <<-1, -1>>

\* The main process before any start-mouse-tracking: robotjs loaded, the
\* window open, no interval timer, nothing sent.
NoTracking ==
    [robot |-> TRUE, window |-> TRUE, mouseTrackingInterval |-> FALSE,
     timers |-> 0, last |-> NoPosition, sent |-> << >>]

\* No animation frame has come in the current play session.
NoFrame == -1

\* Nothing was saved yet; no request for suggestions is on its way; no
\* processing was asked for.
NoProject == [saved |-> FALSE]

NoAnalysis == [pc |-> "idle"]

\* The appearance settings after construction.
InitialAppearance ==
    [currentPreset |-> "MELLOW", blurEnabled |-> TRUE, background |-> "sunset",
     backgroundBlur |-> 0, showCamera |-> FALSE, borderRadius |-> 20,
     showKeystrokes |-> TRUE]

\* processVideoWithProgress before it is called: where the call waits, the
\* status and progress of the job at the service ("none": no job), the
\* requests made so far with their replies, the number of polls, the last
\* progress reported to onProgress, and how the call ended.
NoJob ==
    [pc |-> "idle", server |-> "none", serverProgress |-> 0, calls |-> << >>,
     polls |-> 0, progress |-> 0, result |-> "none"]
NoLayout == [pc |-> "unmeasured"]

\* No clip/zoom drag is in progress.
NoHist ==
    [clips |-> <<>>, zooms |-> <<>>, drag |-> NoDrag, pure |-> FALSE,
     released |-> FALSE, moved |-> FALSE, lastX |-> 0]

\* The clip/zoom drag ds has just begun on the timeline (cs, zs): so far
\* only pointer moves followed (pure), none yet (moved), no release (released).
DragBegins(cs, zs, ds) ==
    [clips |-> cs, zooms |-> zs, drag |-> ds, pure |-> TRUE,
     released |-> FALSE, moved |-> FALSE, lastX |-> 0]

\* An event: its kind, the target and mode of a press, the pointer x, and
\* (filled in when it is handled) the dragState it met and the id of the zoom
\* that was active when it came.
Event(op, type, id, mode, x) ==
    [op |-> op, type |-> type, id |-> id, mode |-> mode, x |-> x, prev |-> NoDrag,
     zoom |-> 0]

Ends(items) == {items[i].startTime + items[i].duration : i \in DOMAIN items}

SetMax(S) == IF S = {} THEN 0 ELSE CHOOSE m \in S : \A n \in S : n <= m

timelineDurationClipsOnly(cs, zs) ==
    Max(Seconds(DEFAULT_DURATION), SetMax(Ends(cs)))

timelineDuration(cs, zs) ==
    LET clipEnd == SetMax(Ends(cs))
        zoomEnd == SetMax(Ends(zs))
        next == Max(Seconds(DEFAULT_DURATION), Max(clipEnd, zoomEnd))
    IN  IF next > 0 THEN next ELSE Seconds(DEFAULT_DURATION)

----------------------------------------------------------------------------
(* Active items *)

\* A clip's source is a URL, kept as its scheme and the rest; undefined is
\* the empty sequence.
NoSource == << >>

DemoClip ==
    [id |-> 1, startTime |-> 0, duration |-> Seconds(DEFAULT_DURATION),
     name |-> "Demo Project", type |-> "video", width |-> 0, height |-> 0,
     source |-> NoSource]

\* undefined, as a clip and as a zoom; a width or height of 0 is undefined too
NoClip ==
    [id |-> 0, startTime |-> 0, duration |-> 0, name |-> "", type |-> "none",
     width |-> 0, height |-> 0, source |-> NoSource]

NoZoom ==
    [id |-> 0, startTime |-> 0, duration |-> 0, x |-> 0, y |-> 0, scale10 |-> 0]

\* The position zooms.find(...) stops at, 0 if none.
activeZoomIndexHalfOpen(zs, t) ==
    LET Hit(i) == t >= zs[i].startTime /\ t < zs[i].startTime + zs[i].duration
    IN  IF \E i \in DOMAIN zs : Hit(i)
        THEN CHOOSE i \in DOMAIN zs : Hit(i) /\ \A j \in 1..(i - 1) : ~Hit(j)
        ELSE 0

activeZoomIndex(zs, t) ==
    LET Hit(i) == t >= zs[i].startTime /\ t <= zs[i].startTime + zs[i].duration
    IN  IF \E i \in DOMAIN zs : Hit(i)
        THEN CHOOSE i \in DOMAIN zs : Hit(i) /\ \A j \in 1..(i - 1) : ~Hit(j)
        ELSE 0

activeZoom(zs, t) ==
    IF activeZoomIndex(zs, t) = 0 THEN NoZoom ELSE zs[activeZoomIndex(zs, t)]

\* The position clips.slice().reverse().find(...) stops at, counted in clips.
activeClipIndexFirst(cs, t) ==
    LET Hit(i) == t >= cs[i].startTime /\ t < cs[i].startTime + cs[i].duration
    IN  IF \E i \in DOMAIN cs : Hit(i)
        THEN CHOOSE i \in DOMAIN cs : Hit(i) /\ \A j \in 1..(i - 1) : ~Hit(j)
        ELSE 0

activeClipIndex(cs, t) ==
    LET Hit(i) == t >= cs[i].startTime /\ t < cs[i].startTime + cs[i].duration
    IN  IF \E i \in DOMAIN cs : Hit(i)
        THEN CHOOSE i \in DOMAIN cs : Hit(i) /\ \A j \in (i + 1)..Len(cs) : ~Hit(j)
        ELSE 0

activeClip(cs, t) ==
    IF activeClipIndex(cs, t) = 0 THEN NoClip ELSE cs[activeClipIndex(cs, t)]

\* handleAddTitleClip: the last video clip in list order that contains t
activeVideoClip(cs, t) ==
    LET Hit(i) == /\ cs[i].type = "video"
                  /\ t >= cs[i].startTime /\ t < cs[i].startTime + cs[i].duration
    IN  IF \E i \in DOMAIN cs : Hit(i)
        THEN cs[CHOOSE i \in DOMAIN cs : Hit(i) /\ \A j \in (i + 1)..Len(cs) : ~Hit(j)]
        ELSE NoClip

----------------------------------------------------------------------------
(* Camera (EditorCanvas.tsx).                                              *)
(*                                                                         *)
(* A physics profile is {stiffness, damping, mass}, the mass in tenths.    *)
(* A scale of a zoom is in tenths (the slider steps by 0.1), contentScale  *)
(* and the scale target in hundredths (its slider steps by 0.01).  A       *)
(* length of the container is in units of 1/DimUnit px, which makes the    *)
(* height of the Auto ratio exact for every clip width that divides 1920,  *)
(* and a translation target is in units of 1/(1000 * DimUnit) px, which    *)
(* makes the percent and the scale of the targeting formula exact.         *)

PHYSICS_PRESETS ==
    << [stiffness |-> 50,  damping |-> 20, mass10 |-> 15],
       [stiffness |-> 100, damping |-> 15, mass10 |-> 10],
       [stiffness |-> 300, damping |-> 25, mass10 |-> 8],
       [stiffness |-> 600, damping |-> 30, mass10 |-> 5] >>

INITIAL_CONFIG == PHYSICS_PRESETS[2]

zoomPhysics == [stiffness |-> 60, damping |-> 20, mass10 |-> 15]

activePhysicsConfigOnly(az, cfg) == cfg

activePhysics(az, cfg) == IF az # NoZoom THEN zoomPhysics ELSE cfg

AspectRatios == {"Auto", "16:9", "9:16", "1:1", "4:3", "21:9"}

DimUnit == (100 * 1920) \div 800

Px(n) == n * DimUnit

\* activeClip.width || 1920 and activeClip.height || 1080
nativeWidth(clip) == IF clip.width # 0 THEN clip.width ELSE 1920

nativeHeight(clip) == IF clip.height # 0 THEN clip.height ELSE 1080

\* The header of the window frame, px.
headerHeight(frame) == IF frame THEN 32 ELSE 0

\* The Auto container of a scale that is not clamped to 1.
getContainerDimensionsUnclamped(ratio, clip, frame, cs) ==
    IF ratio = "Auto" /\ clip # NoClip
    THEN [width |-> Px(800),
          height |-> (Px(800) \div (100 * nativeWidth(clip)))
                     * (cs * (nativeHeight(clip) + headerHeight(frame))
                        + (100 - cs) * nativeWidth(clip))]
    ELSE [width |-> Px(800), height |-> Px(450)]

getContainerDimensions(ratio, clip, frame, cs) ==
    IF ratio = "Auto"
    THEN IF clip = NoClip
         THEN [width |-> Px(800), height |-> Px(450)]
         ELSE LET headerH == IF frame THEN 32 ELSE 0
                  clipW == IF clip.width # 0 THEN clip.width ELSE 1920
                  clipH == IF clip.height # 0 THEN clip.height ELSE 1080
                  targetW == 800
                  effectiveScale == Min(cs, 100)
                  \* targetW * (effectiveScale * contentRatio + (1 - effectiveScale))
                  targetH == (Px(targetW) \div (100 * clipW))
                             * (effectiveScale * (clipH + headerH)
                                + (100 - effectiveScale) * clipW)
              IN  [width |-> Px(targetW), height |-> targetH]
    ELSE CASE ratio = "16:9" -> [width |-> Px(800), height |-> Px(450)]
           [] ratio = "9:16" -> [width |-> Px(360), height |-> Px(640)]
           [] ratio = "1:1"  -> [width |-> Px(500), height |-> Px(500)]
           [] ratio = "4:3"  -> [width |-> Px(640), height |-> Px(480)]
           [] ratio = "21:9" -> [width |-> Px(800), height |-> Px(340)]
           [] OTHER          -> [width |-> Px(800), height |-> Px(450)]

\* getFittedDimensions of a container: w / clipRatio is w * clipH / clipW and
\* contentH * clipRatio is contentH * clipW / clipH, to the 1/DimUnit px below.
getFittedDimensions(container, clip, frame) ==
    IF clip = NoClip
    THEN [width |-> container.width, height |-> container.height,
          contentHeight |-> container.height]
    ELSE LET w == container.width
             contentH == (w * nativeHeight(clip)) \div nativeWidth(clip)
             h == contentH + Px(headerHeight(frame))
         IN  IF 2 * h > 2 * container.height + Px(1)
             THEN [width |-> ((container.height - Px(headerHeight(frame))) * nativeWidth(clip))
                             \div nativeHeight(clip),
                   height |-> container.height,
                   contentHeight |-> container.height - Px(headerHeight(frame))]
             ELSE [width |-> w, height |-> h, contentHeight |-> contentH]

\* The body of the scale effect.
ScaleTargetContentOnly(az, cs) == cs

ScaleTarget(az, cs) == IF az # NoZoom THEN 10 * az.scale10 ELSE cs

\* The body of the targeting effect for one axis: coord is the x or y of the
\* active zoom, dimension the container width or height.
CamTargetUnclamped(az, coord, dimension) ==
    IF az # NoZoom THEN -((coord - 50) * dimension) * az.scale10 ELSE 0

CamTarget(az, coord, dimension) ==
    IF az # NoZoom
    THEN LET focusPx == (coord - 50) * dimension
             s == az.scale10
             idealCam == -focusPx * s
             maxOffset == (dimension * 50) * (s - 10)
         IN  Max(-maxOffset, Min(maxOffset, idealCam))
    ELSE 0

\* useEffect runs its body after a render whose dependencies differ from
\* those of the render before.  A zoom is a dependency by reference; the
\* store never mutates a zoom in place, so the reference changes whenever
\* the value does.
EffectRunsOnMountOnly(deps, prevDeps) == FALSE

EffectRuns(deps, prevDeps) == deps # prevDeps

\* The render that follows a state change, with its effects.  The values
\* of the render (the active zoom and clip, the container, the physics) are
\* computed once.
Rendered ==
    \E az \in {activeZoom(zooms', currentTime')},
       prevAz \in {activeZoom(zooms, currentTime)},
       clip \in {activeClip(clips', currentTime')},
       prevClip \in {activeClip(clips, currentTime)} :
      \E dims \in {getContainerDimensions(aspectRatio', clip, showWindowFrame', contentScale')},
         prevDims \in {getContainerDimensions(aspectRatio, prevClip, showWindowFrame, contentScale)},
         physics \in {activePhysics(az, config')} :
        /\ targetScaleMV' = IF EffectRuns(<<az, contentScale'>>, <<prevAz, contentScale>>)
                            THEN ScaleTarget(az, contentScale')
                            ELSE targetScaleMV
        /\ targetCamX' = IF EffectRuns(<<az, dims>>, <<prevAz, prevDims>>)
                         THEN CamTarget(az, az.x, dims.width)
                         ELSE targetCamX
        /\ targetCamY' = IF EffectRuns(<<az, dims>>, <<prevAz, prevDims>>)
                         THEN CamTarget(az, az.y, dims.height)
                         ELSE targetCamY
        /\ springPhysics' = [camX |-> physics, camY |-> physics, springScale |-> physics]

----------------------------------------------------------------------------
(* The drag effect: the cleanup detaches the handlers of the previous      *)
(* render, and handlers capturing the new dragState are attached only when *)
(* it is not null.                                                         *)

DragEffect(attached, ds) == ds

----------------------------------------------------------------------------
InitOther(electron) ==
    /\ zooms = << >>
    /\ selectedClipId = 0
    /\ selectedZoomId = 0
    /\ currentTime = 0
    /\ timelineScale = 80
    /\ dragState = NoDrag
    /\ listener = NoDrag
    /\ nextId = 2
    /\ config = INITIAL_CONFIG
    /\ targetCamX = 0
    /\ targetCamY = 0
    /\ springPhysics = [camX |-> INITIAL_CONFIG, camY |-> INITIAL_CONFIG,
                        springScale |-> INITIAL_CONFIG]
    /\ isElectron = electron
    /\ backendAvailable = "null"
    /\ isPlaying = FALSE
    /\ previousTimeRef = FALSE
    /\ isExporting = FALSE
    /\ isCaptureMode = FALSE
    /\ isRecording = FALSE
    /\ showExportModal = FALSE
    /\ exportRecorderRef = FALSE
    /\ exportRun = NoExport
    /\ capture = NoCapture
    /\ recordings = <<>>
    /\ mediaRecorderRef = 0
    /\ exportProgress = 0
    /\ exportStatus = ""
    /\ runs = 0
    /\ now = 0
    /\ previousTime = 0
    /\ sessionFrame = NoFrame
    /\ savedProject = NoProject
    /\ isAnalyzingZooms = FALSE
    /\ analysis = NoAnalysis
    /\ appearance = InitialAppearance
    /\ job = NoJob
    /\ exportCursorData = << >>
    /\ mouseListeners = << >>
    /\ mainTracking = NoTracking
    /\ steps = 0
    /\ lastEvent = Event("init", "none", 0, "none", 0)
    /\ hist = NoHist

InitApp(electron) ==
    /\ clips = << DemoClip >>
    /\ contentScale = 95
    /\ aspectRatio = "Auto"
    /\ showWindowFrame = TRUE
    /\ targetScaleMV = 95
    /\ layout = NoLayout
    /\ InitOther(electron)

\* The desktop app.
Init == InitApp(TRUE)

\* Every event is counted, recorded, and followed by the drag effect.
Recorded(ev) ==
    /\ steps < MaxSteps
    /\ steps' = steps + 1
    /\ lastEvent' = [ev EXCEPT !.prev = dragState,
                               !.zoom = activeZoom(zooms, currentTime).id]
    /\ listener' = DragEffect(listener, dragState')
    /\ UNCHANGED <<captureVars, clockVars, projectVars, job, layout, trackingVars>>

\* An event of the timeline or of the zoom store: the canvas settings stay.
Handled(ev) ==
    /\ Recorded(ev)
    /\ UNCHANGED cameraInputs
    /\ Rendered

\* History kept while a clip/zoom drag lasts: an event other than a pointer
\* move or release ends the run of pointer moves.
HistOther == hist' = IF dragState'.type \in {"clip", "zoom"}
                     THEN [hist EXCEPT !.pure = FALSE]
                     ELSE NoHist

----------------------------------------------------------------------------
(* handleScrubStart *)

ScrubTimeUnclamped(x, cs, zs, scale) == PxToTicks(x, scale)

\* The same with the clamp at the start of the track only.
ScrubTimeFromZero(x, cs, zs, scale) == PxToTicks(Max(0, x), scale)

\* clampedX / timelineScale, of handleScrubStart and of a playhead drag
ScrubTime(x, cs, zs, scale) ==
    LET trackWidth == TicksToPx(timelineDuration(cs, zs), scale)
        clampedX == Max(0, Min(trackWidth, x))
    IN  PxToTicks(clampedX, scale)

HandleScrubStart(x) ==
    /\ IF dragState.type \in {"clip", "zoom"}
       THEN /\ dragState' = NoDrag
            /\ UNCHANGED <<currentTime, selectedClipId, selectedZoomId>>
       ELSE /\ currentTime' = ScrubTime(x, clips, zooms, timelineScale)
            /\ selectedZoomId' = 0
            /\ selectedClipId' = 0
            /\ dragState' = PlayheadDrag
    /\ UNCHANGED <<clips, zooms, timelineScale, nextId>>
    /\ HistOther
    /\ Handled(Event("scrubStart", "playhead", 0, "none", x))

----------------------------------------------------------------------------
(* onClipInteraction / onZoomInteraction *)

\* The updater handed to setDragState.
ToggleDragRestart(prev, type, id, mode, contentX, start, dur) ==
    ItemDrag(type, id, mode, contentX, start, dur)

ToggleDragKeepsFirst(prev, type, id, mode, contentX, start, dur) ==
    IF prev.type = type /\ prev.id = id /\ prev.mode = mode
    THEN NoDrag
    ELSE IF prev.type \in {"clip", "zoom"}
         THEN ItemDrag(type, id, mode, contentX, prev.initialStart, prev.initialDuration)
         ELSE ItemDrag(type, id, mode, contentX, start, dur)

ToggleDrag(prev, type, id, mode, contentX, start, dur) ==
    IF prev.type = type /\ prev.id = id /\ prev.mode = mode
    THEN NoDrag
    ELSE ItemDrag(type, id, mode, contentX, start, dur)

\* A press that toggles the drag off keeps the history of the drag it ended
\* for the state it leads to; any other press begins a drag.
HistPress == hist' = IF dragState'.type = "none"
                     THEN hist
                     ELSE DragBegins(clips, zooms, dragState')

\* i is the position of the rendered clip the pointer went down on; the
\* element passes the clip's id, startTime and duration of that render.
OnClipInteraction(i, mode, x) ==
    /\ i \in DOMAIN clips
    /\ selectedClipId' = clips[i].id
    /\ selectedZoomId' = 0
    /\ dragState' = ToggleDrag(dragState, "clip", clips[i].id, mode, x,
                               clips[i].startTime, clips[i].duration)
    /\ UNCHANGED <<clips, zooms, currentTime, timelineScale, nextId>>
    /\ HistPress
    /\ Handled(Event("clipDown", "clip", clips[i].id, mode, x))

OnZoomInteraction(i, mode, x) ==
    /\ i \in DOMAIN zooms
    /\ selectedZoomId' = zooms[i].id
    /\ selectedClipId' = 0
    /\ dragState' = ToggleDrag(dragState, "zoom", zooms[i].id, mode, x,
                               zooms[i].startTime, zooms[i].duration)
    /\ UNCHANGED <<clips, zooms, currentTime, timelineScale, nextId>>
    /\ HistPress
    /\ Handled(Event("zoomDown", "zoom", zooms[i].id, mode, x))

----------------------------------------------------------------------------
(* The window handlers of the drag effect: handleMouseMove, handleMouseUp *)

\* The body of the map over zooms / clips for the dragged id.
DraggedItemAccumulating(item, ds, timeDelta) ==
    IF item.id # ds.id THEN item
    ELSE IF ds.mode = "move"
         THEN [item EXCEPT !.startTime = Max(0, item.startTime + timeDelta)]
         ELSE [item EXCEPT !.duration = Max(HalfSecond, item.duration + timeDelta)]

DraggedItemAllItems(item, ds, timeDelta) ==
    IF ds.mode = "move"
    THEN [item EXCEPT !.startTime = Max(0, ds.initialStart + timeDelta)]
    ELSE [item EXCEPT !.duration = Max(HalfSecond, ds.initialDuration + timeDelta)]

DraggedItemUnclamped(item, ds, timeDelta) ==
    IF item.id # ds.id THEN item
    ELSE IF ds.mode = "move"
         THEN [item EXCEPT !.startTime = Max(0, ds.initialStart + timeDelta)]
         ELSE [item EXCEPT !.duration = ds.initialDuration + timeDelta]

DraggedItem(item, ds, timeDelta) ==
    IF item.id # ds.id THEN item
    ELSE IF ds.mode = "move"
         THEN [item EXCEPT !.startTime = Max(0, ds.initialStart + timeDelta)]
         ELSE [item EXCEPT !.duration = Max(HalfSecond, ds.initialDuration + timeDelta)]

\* A mousemove on the window; it reaches handleMouseMove only while the
\* handlers are attached, and the handler reads the dragState it captured.
MouseMove(x) ==
    /\ LET ds == listener
           timeDelta == PxToTicks(x - ds.startX, timelineScale)
       IN  CASE ds.type = "none" ->
                    UNCHANGED <<currentTime, zooms, clips>>
             [] ds.type = "playhead" ->
                    /\ currentTime' = ScrubTime(x, clips, zooms, timelineScale)
                    /\ UNCHANGED <<zooms, clips>>
             [] ds.type = "zoom" ->
                    /\ zooms' = [i \in DOMAIN zooms |-> DraggedItem(zooms[i], ds, timeDelta)]
                    /\ UNCHANGED <<currentTime, clips>>
             [] ds.type = "clip" ->
                    /\ clips' = [i \in DOMAIN clips |-> DraggedItem(clips[i], ds, timeDelta)]
                    /\ UNCHANGED <<currentTime, zooms>>
    /\ UNCHANGED <<selectedClipId, selectedZoomId, timelineScale, dragState, nextId>>
    /\ hist' = IF dragState.type \in {"clip", "zoom"}
               THEN [hist EXCEPT !.moved = TRUE, !.lastX = x]
               ELSE NoHist
    /\ Handled(Event("mouseMove", "none", 0, "none", x))

\* handleMouseUp of the attached handlers, applied to the current dragState.
MouseUpDragStateAlways(attached, ds) ==
    IF attached.type # "none" THEN NoDrag ELSE ds

MouseUpDragState(attached, ds) ==
    IF attached.type = "playhead" THEN NoDrag ELSE ds

MouseUp ==
    /\ dragState' = MouseUpDragState(listener, dragState)
    /\ UNCHANGED <<clips, zooms, selectedClipId, selectedZoomId, currentTime,
                   timelineScale, nextId>>
    /\ hist' = IF dragState'.type \in {"clip", "zoom"}
               THEN [hist EXCEPT !.released = TRUE]
               ELSE NoHist
    /\ Handled(Event("mouseUp", "none", 0, "none", 0))

----------------------------------------------------------------------------
(* Timeline store *)

\* currentTime > c.startTime && currentTime < c.startTime + c.duration
StrictlyInside(c, t) == t > c.startTime /\ t < c.startTime + c.duration

\* Array.prototype.find / findIndex: the first position that matches, 0 if none.
FindSplitIndex(cs, t) ==
    IF \E i \in DOMAIN cs : StrictlyInside(cs[i], t)
    THEN CHOOSE i \in DOMAIN cs :
            /\ StrictlyInside(cs[i], t)
            /\ \A j \in 1..(i - 1) : ~StrictlyInside(cs[j], t)
    ELSE 0

FindIndexById(cs, id) ==
    IF \E i \in DOMAIN cs : cs[i].id = id
    THEN CHOOSE i \in DOMAIN cs :
            /\ cs[i].id = id
            /\ \A j \in 1..(i - 1) : cs[j].id # id
    ELSE 0

\* newClips.splice(idx, 1, clipA, clipB)
Splice2(cs, idx, a, b) ==
    SubSeq(cs, 1, idx - 1) \o <<a, b>> \o SubSeq(cs, idx + 1, Len(cs))

\* The two halves handleSplit builds from clipToSplit at currentTime.
SplitHalvesKeepDuration(c, t, newId) ==
    << [c EXCEPT !.duration = t - c.startTime],
       [id |-> newId, startTime |-> t, duration |-> c.duration,
        name |-> c.name, type |-> c.type, width |-> c.width,
        height |-> c.height, source |-> c.source] >>

SplitHalvesSameId(c, t, newId) ==
    << [c EXCEPT !.duration = t - c.startTime],
       [id |-> c.id, startTime |-> t, duration |-> c.duration - (t - c.startTime),
        name |-> c.name, type |-> c.type, width |-> c.width,
        height |-> c.height, source |-> c.source] >>

SplitHalves(c, t, newId) ==
    LET firstDuration == t - c.startTime
        secondDuration == c.duration - firstDuration
    IN  << [c EXCEPT !.duration = firstDuration],
           [id |-> newId, startTime |-> t, duration |-> secondDuration,
            name |-> c.name, type |-> c.type, width |-> c.width,
        height |-> c.height, source |-> c.source] >>

\* The early returns of handleSplit.
SplitRefusedNoMinimum(cs, t) == FindSplitIndex(cs, t) = 0

SplitRefused(cs, t) ==
    LET k == FindSplitIndex(cs, t)
    IN  \/ k = 0
        \/ t - cs[k].startTime < MinSplit
        \/ cs[k].duration - (t - cs[k].startTime) < MinSplit

HandleSplit ==
    /\ Len(clips) < MaxClips
    /\ IF SplitRefused(clips, currentTime)
       THEN UNCHANGED <<clips, nextId>>
       ELSE LET clipToSplit == clips[FindSplitIndex(clips, currentTime)]
                halves == SplitHalves(clipToSplit, currentTime, nextId)
                idx == FindIndexById(clips, clipToSplit.id)
            IN  /\ clips' = Splice2(clips, idx, halves[1], halves[2])
                /\ nextId' = nextId + 1
    /\ UNCHANGED <<zooms, selectedClipId, selectedZoomId, currentTime,
                   timelineScale, dragState>>
    /\ HistOther
    /\ Handled(Event("split", "clip", 0, "none", 0))

HandleDeleteClip ==
    /\ selectedClipId # 0
    /\ clips' = SelectSeq(clips, LAMBDA c : c.id # selectedClipId)
    /\ selectedClipId' = 0
    /\ UNCHANGED <<zooms, selectedZoomId, currentTime, timelineScale, dragState, nextId>>
    /\ HistOther
    /\ Handled(Event("deleteClip", "clip", selectedClipId, "none", 0))

HandleAddTitleClip ==
    /\ Len(clips) < MaxClips
    /\ clips' = Append(clips, [id |-> nextId, startTime |-> currentTime,
                               duration |-> Seconds(3), name |-> "Title Card",
                               type |-> "title",
                               width |-> activeVideoClip(clips, currentTime).width,
                               height |-> activeVideoClip(clips, currentTime).height,
                               source |-> NoSource])
    /\ selectedClipId' = nextId
    /\ nextId' = nextId + 1
    /\ UNCHANGED <<zooms, selectedZoomId, currentTime, timelineScale, dragState>>
    /\ HistOther
    /\ Handled(Event("addTitle", "clip", nextId, "none", 0))

AddZoom ==
    /\ Len(zooms) < MaxZooms
    /\ zooms' = Append(zooms, [id |-> nextId, startTime |-> currentTime,
                               duration |-> Seconds(3), x |-> 50, y |-> 50,
                               scale10 |-> 15])
    /\ selectedZoomId' = nextId
    /\ nextId' = nextId + 1
    /\ UNCHANGED <<clips, selectedClipId, currentTime, timelineScale, dragState>>
    /\ HistOther
    /\ Handled(Event("addZoom", "zoom", nextId, "none", 0))

\* The delete button of the panel of the selected zoom.
RemoveZoom ==
    /\ \E i \in DOMAIN zooms : zooms[i].id = selectedZoomId
    /\ zooms' = SelectSeq(zooms, LAMBDA z : z.id # selectedZoomId)
    /\ selectedZoomId' = 0
    /\ UNCHANGED <<clips, selectedClipId, currentTime, timelineScale, dragState, nextId>>
    /\ HistOther
    /\ Handled(Event("removeZoom", "zoom", selectedZoomId, "none", 0))

SetTimelineScale(s) ==
    /\ s # timelineScale
    /\ timelineScale' = s
    /\ UNCHANGED <<clips, zooms, selectedClipId, selectedZoomId, currentTime,
                   dragState, nextId>>
    /\ HistOther
    /\ Handled(Event("setScale", "none", 0, "none", s))

Next ==
    \/ \E x \in PointerXs : HandleScrubStart(x)
    \/ \E i \in 1..MaxClips, mode \in {"move", "resize"}, x \in PointerXs :
          OnClipInteraction(i, mode, x)
    \/ \E i \in 1..MaxZooms, mode \in {"move", "resize"}, x \in PointerXs :
          OnZoomInteraction(i, mode, x)
    \/ \E x \in PointerXs : MouseMove(x)
    \/ MouseUp
    \/ HandleSplit
    \/ HandleDeleteClip
    \/ HandleAddTitleClip
    \/ AddZoom
    \/ RemoveZoom
    \/ \E s \in TimelineScales : SetTimelineScale(s)

Spec == Init /\ [][Next]_vars

----------------------------------------------------------------------------
(* The canvas settings, the project store and the zoom panel.              *)

MaxCameraSteps == 3

\* Pointer positions of a scrub at the default scale: 1 s, 3.5 s, 5 s, 6 s, 8 s.
CameraPointerXs == {80, 280, 400, 480, 640}
\* Where a double click lands on the canvas, in percent of its width and height.
CanvasPoints == {<<0, 100>>, <<50, 50>>, <<80, 20>>}
\* Positions of the Padding / Zoom slider (min 0.5, max 10, step 0.01).
ContentScales == {50, 95, 250}

\* Projects found in localStorage: what an earlier saveProject wrote.
SavedProjects ==
    { [config |-> PHYSICS_PRESETS[2], contentScale |-> 95, aspectRatio |-> "16:9",
       showWindowFrame |-> TRUE, appearance |-> InitialAppearance,
       clips |-> << DemoClip >>,
       zooms |-> << [id |-> 101, startTime |-> Seconds(2), duration |-> Seconds(3),
                     x |-> 50, y |-> 50, scale10 |-> 20] >>],
      [config |-> PHYSICS_PRESETS[4], contentScale |-> 100, aspectRatio |-> "9:16",
       showWindowFrame |-> FALSE,
       appearance |-> [currentPreset |-> "RAPID", blurEnabled |-> FALSE,
                       background |-> "ocean", backgroundBlur |-> 8,
                       showCamera |-> TRUE, borderRadius |-> 12,
                       showKeystrokes |-> FALSE],
       clips |-> << [id |-> 103, startTime |-> 0, duration |-> Seconds(20),
                     name |-> "Recording", type |-> "video", width |-> 960,
                     height |-> 1920,
                     source |-> <<"https:", "//media.example/recording.webm">>] >>,
       zooms |-> << [id |-> 101, startTime |-> Seconds(2), duration |-> Seconds(3),
                     x |-> 0, y |-> 100, scale10 |-> 30],
                    [id |-> 102, startTime |-> Seconds(4), duration |-> Seconds(3),
                     x |-> 60, y |-> 45, scale10 |-> 10] >>] }

\* The updates the sliders of the zoom panel hand to updateZoom.
ZoomUpdates(cs, zs) ==
    { [field |-> "startTime", value |-> v] :
          v \in {0, Max(0, timelineDuration(cs, zs) - HalfSecond)} }
    \cup { [field |-> "duration", value |-> v] : v \in {HalfSecond, Seconds(10)} }
    \cup { [field |-> "scale10", value |-> v] : v \in {11, 30} }

\* { ...z, ...updates }
Updated(z, u) ==
    CASE u.field = "startTime" -> [z EXCEPT !.startTime = u.value]
      [] u.field = "duration"  -> [z EXCEPT !.duration = u.value]
      [] u.field = "scale10"   -> [z EXCEPT !.scale10 = u.value]

\* An event that may change the canvas settings.
CanvasHandled(ev) ==
    /\ Recorded(ev)
    /\ Rendered

\* The play/pause effect without its reset.
PlayEffectKeepsTime(playing, prevRef) == prevRef

\* The play/pause effect: pausing forgets the time of the previous frame.
PlayEffect(playing, prevRef) == IF playing THEN prevRef ELSE FALSE

\* The time previousTimeRef holds after the play/pause effect.
HeldTime(ref, time) == IF ref THEN time ELSE 0

\* v || dflt of a number
OrDefault(v, dflt) == IF v = 0 THEN dflt ELSE v

\* The appearance loadProject sets from the parsed project.
LoadedAppearance(a) ==
    [a EXCEPT !.backgroundBlur = OrDefault(@, 0), !.borderRadius = OrDefault(@, 20)]

\* loadProject with the project parsed from the stored item, and the
\* play/pause effect of the render that follows.
LoadProject(project) ==
    /\ steps < MaxSteps
    /\ steps' = steps + 1
    /\ config' = project.config
    /\ appearance' = LoadedAppearance(project.appearance)
    /\ contentScale' = project.contentScale
    /\ aspectRatio' = project.aspectRatio
    /\ showWindowFrame' = project.showWindowFrame
    /\ zooms' = project.zooms
    /\ clips' = project.clips
    /\ currentTime' = 0
    /\ isPlaying' = FALSE
    /\ previousTimeRef' = PlayEffect(FALSE, previousTimeRef)
    /\ previousTime' = HeldTime(previousTimeRef', previousTime)
    /\ sessionFrame' = NoFrame
    /\ UNCHANGED <<selectedClipId, selectedZoomId, timelineScale, dragState, nextId>>
    /\ HistOther
    /\ lastEvent' = [Event("loadProject", "none", 0, "none", 0) EXCEPT
                        !.prev = dragState,
                        !.zoom = activeZoom(zooms, currentTime).id]
    /\ listener' = DragEffect(listener, dragState')
    /\ UNCHANGED <<isElectron, backendAvailable, isExporting, isCaptureMode,
                   isRecording, showExportModal, exportRecorderRef, exportRun,
                   capture, recordings, mediaRecorderRef, exportProgress,
                   exportStatus, runs>>
    /\ UNCHANGED <<now, savedProject, isAnalyzingZooms, analysis, job, layout,
                   trackingVars>>
    /\ Rendered

HandleCanvasDoubleClick(xPercent, yPercent) ==
    /\ Len(zooms) < MaxZooms
    /\ zooms' = Append(zooms, [id |-> nextId, startTime |-> currentTime,
                               duration |-> Seconds(2), x |-> xPercent,
                               y |-> yPercent, scale10 |-> 15])
    /\ selectedZoomId' = nextId
    /\ nextId' = nextId + 1
    /\ UNCHANGED <<clips, selectedClipId, currentTime, timelineScale, dragState>>
    /\ HistOther
    /\ Handled(Event("doubleClick", "zoom", nextId, "none", 0))

ClearZooms ==
    /\ zooms' = << >>
    /\ selectedZoomId' = 0
    /\ UNCHANGED <<clips, selectedClipId, currentTime, timelineScale, dragState, nextId>>
    /\ HistOther
    /\ Handled(Event("clearZooms", "zoom", 0, "none", 0))

\* A slider of the panel of the selected zoom.
UpdateZoom(u) ==
    /\ \E i \in DOMAIN zooms : zooms[i].id = selectedZoomId
    /\ zooms' = [i \in DOMAIN zooms |->
                    IF zooms[i].id = selectedZoomId THEN Updated(zooms[i], u)
                    ELSE zooms[i]]
    /\ UNCHANGED <<clips, selectedClipId, selectedZoomId, currentTime,
                   timelineScale, dragState, nextId>>
    /\ HistOther
    /\ Handled(Event("updateZoom", "zoom", selectedZoomId, "none", 0))

SetAspectRatio(ratio) ==
    /\ ratio # aspectRatio
    /\ aspectRatio' = ratio
    /\ UNCHANGED <<storeVars, config, contentScale, showWindowFrame>>
    /\ HistOther
    /\ CanvasHandled(Event("setAspectRatio", "none", 0, "none", 0))

SetContentScale(s) ==
    /\ s # contentScale
    /\ contentScale' = s
    /\ UNCHANGED <<storeVars, config, aspectRatio, showWindowFrame>>
    /\ HistOther
    /\ CanvasHandled(Event("setContentScale", "none", 0, "none", s))

SetShowWindowFrame(checked) ==
    /\ checked # showWindowFrame
    /\ showWindowFrame' = checked
    /\ UNCHANGED <<storeVars, config, contentScale, aspectRatio>>
    /\ HistOther
    /\ CanvasHandled(Event("setShowWindowFrame", "none", 0, "none", 0))

\* A preset button or a slider of the physics panel.
SetConfig(cfg) ==
    /\ cfg # config
    /\ config' = cfg
    /\ UNCHANGED <<storeVars, contentScale, aspectRatio, showWindowFrame>>
    /\ HistOther
    /\ CanvasHandled(Event("setConfig", "none", 0, "none", 0))

\* The settings and panels are explored to a depth of their own.
InCameraRun == steps < MaxCameraSteps

CameraNext ==
    \/ InCameraRun /\ \E project \in SavedProjects : LoadProject(project)
    \/ InCameraRun /\ \E x \in CameraPointerXs : HandleScrubStart(x)
    \/ InCameraRun /\ \E p \in CanvasPoints : HandleCanvasDoubleClick(p[1], p[2])
    \/ InCameraRun /\ AddZoom
    \/ InCameraRun /\ RemoveZoom
    \/ InCameraRun /\ ClearZooms
    \/ InCameraRun /\ \E u \in ZoomUpdates(clips, zooms) : UpdateZoom(u)
    \/ InCameraRun /\ \E ratio \in AspectRatios : SetAspectRatio(ratio)
    \/ InCameraRun /\ \E s \in ContentScales : SetContentScale(s)
    \/ InCameraRun /\ \E checked \in BOOLEAN : SetShowWindowFrame(checked)
    \/ InCameraRun /\ \E i \in DOMAIN PHYSICS_PRESETS \cup {0} :
          SetConfig(IF i = 0 THEN zoomPhysics ELSE PHYSICS_PRESETS[i])

CameraSpec == Init /\ [][CameraNext]_vars

----------------------------------------------------------------------------
(* Playback, recording and export.                                         *)
(*                                                                         *)
(* JavaScript runs one handler at a time: an action below is one           *)
(* synchronous stretch of a handler, from where it resumed to its next     *)
(* await, or one event of the platform (a timer, a reply of the main       *)
(* process, a settled media request, a recorder event, an animation        *)
(* frame) with the handler it triggers.  The platform delivers these in    *)
(* any order, except two timers started in one order with delays in the    *)
(* same order.                                                             *)

MaxRuns == 2

\* Time between two animation frames.
PlaybackDeltas == {Seconds(5), Seconds(15)}
\* loadedmetadata of a recording: its duration and video size.
RecordedMedia ==
    { [duration |-> Seconds(10), width |-> 1920, height |-> 1080,
       url |-> "file:///recording"] }

\* A run may begin: the header with the Record and Export buttons is shown.
HeaderShown == ~isExporting /\ ~isCaptureMode

\* Nothing of the timeline interaction, the zoom store or the canvas
\* settings changes; the canvas renders.
CaptureBackground ==
    /\ UNCHANGED <<zooms, selectedZoomId, timelineScale, dragState, listener,
                   steps, lastEvent, hist>>
    /\ UNCHANGED cameraInputs
    /\ UNCHANGED <<clockVars, projectVars, job, layout>>
    /\ Rendered

\* The same, and the pointer tracking is not touched either.
Background == CaptureBackground /\ UNCHANGED trackingVars

TimelineKept == UNCHANGED <<clips, selectedClipId, currentTime, nextId>>

\* checkBackendHealth().then(setBackendAvailable)
BackendHealthResolved(available) ==
    /\ backendAvailable = "null"
    /\ backendAvailable' = IF available THEN "true" ELSE "false"
    /\ UNCHANGED <<exportProgress, exportStatus>>
    /\ UNCHANGED <<isElectron, isPlaying, previousTimeRef, isExporting, isCaptureMode,
                   isRecording, showExportModal, exportRecorderRef, exportRun,
                   capture, recordings, mediaRecorderRef, runs>>
    /\ TimelineKept
    /\ Background

TogglePlay ==
    /\ HeaderShown
    /\ isPlaying' = ~isPlaying
    /\ previousTimeRef' = PlayEffect(isPlaying', previousTimeRef)
    /\ UNCHANGED <<exportProgress, exportStatus>>
    /\ UNCHANGED <<isElectron, backendAvailable, isExporting, isCaptureMode,
                   isRecording, showExportModal, exportRecorderRef, exportRun,
                   capture, recordings, mediaRecorderRef, runs>>
    /\ TimelineKept
    /\ Background

\* animate: what the end of the timeline does to the export recorder.
StoppedAtEnd(ref, recorder) ==
    IF ref /\ recorder = "recording" THEN "stopping" ELSE recorder

\* One animation frame while playing.
Animate(deltaTime) ==
    /\ isPlaying
    /\ IF ~previousTimeRef
       THEN /\ previousTimeRef' = TRUE
            /\ UNCHANGED <<currentTime, isPlaying, capture, exportRun>>
       ELSE LET next == currentTime + deltaTime
            IN  IF next >= timelineDuration(clips, zooms)
                THEN /\ isPlaying' = FALSE
                     /\ capture' = [capture EXCEPT
                                       !.recorder = StoppedAtEnd(exportRecorderRef, @)]
                     /\ currentTime' = 0
                     /\ previousTimeRef' = PlayEffect(FALSE, previousTimeRef)
                     /\ exportRun' = [exportRun EXCEPT
                                         !.playbackEnded = (exportRun.pc # "idle")]
                ELSE /\ currentTime' = next
                     /\ UNCHANGED <<isPlaying, previousTimeRef, capture, exportRun>>
    /\ UNCHANGED <<exportProgress, exportStatus>>
    /\ UNCHANGED <<isElectron, backendAvailable, isExporting, isCaptureMode,
                   isRecording, showExportModal, exportRecorderRef, recordings, mediaRecorderRef, runs>>
    /\ UNCHANGED <<clips, selectedClipId, nextId>>
    /\ Background

(* captureEditedTimeline *)

\* The call, up to its first await.
CaptureBegins(electron) ==
    [pc |-> IF electron THEN "getWindowBounds" ELSE "delay200",
     promise |-> "pending", stream |-> "none", recorder |-> "none",
     stopMouseTracking |-> "null", stopMouseListener |-> "null",
     run |-> runs + 1, captureStart |-> now, bounds |-> NoBounds]

\* The window bounds the main process may answer with (null: the window is
\* gone), and a rejected request.
WindowBounds ==
    { [null |-> FALSE, x |-> 100, y |-> 50, width |-> 800, height |-> 600] }

BoundsResults ==
    {[ok |-> FALSE, bounds |-> NoBounds]}
    \cup {[ok |-> TRUE, bounds |-> b] : b \in WindowBounds}

\* startMouseTracking of the main process
MainStarts(m) ==
    IF ~m.robot \/ m.mouseTrackingInterval THEN m
    ELSE [m EXCEPT !.mouseTrackingInterval = TRUE, !.timers = @ + 1,
                   !.last = NoPosition]

\* stopMouseTracking of the main process
MainStops(m) ==
    IF m.mouseTrackingInterval
    THEN [m EXCEPT !.mouseTrackingInterval = FALSE, !.timers = @ - 1]
    ELSE m

\* The handler onMousePosition attaches for a capture.
MouseListener(c) == [run |-> c.run, captureStart |-> c.captureStart, bounds |-> c.bounds]

\* stopMouseListener?.() and stopMouseTracking?.() of a capture
ListenersAfterRelease(c, ls) ==
    IF c.stopMouseListener = "set" THEN SelectSeq(ls, LAMBDA l : l.run # c.run) ELSE ls

MainAfterRelease(c, m) == IF c.stopMouseTracking = "set" THEN MainStops(m) ELSE m

\* An exception leaves the function: its promise is rejected with it.
CaptureThrows(c, err) == [c EXCEPT !.pc = "idle", !.promise = err]

\* bounds = await electronAPI.getWindowBounds(); a rejection is swallowed.
CaptureGetWindowBounds(result) ==
    /\ capture.pc = "getWindowBounds"
    /\ capture' = [capture EXCEPT
                      !.pc = IF result.ok THEN "startMouseTracking" ELSE "delay200",
                      !.bounds = result.bounds]
    /\ UNCHANGED <<exportProgress, exportStatus>>
    /\ UNCHANGED <<isElectron, backendAvailable, isPlaying, previousTimeRef,
                   isExporting, isCaptureMode, isRecording, showExportModal,
                   exportRecorderRef, exportRun, recordings, mediaRecorderRef, runs>>
    /\ TimelineKept
    /\ Background

\* await electronAPI.startMouseTracking(), then the two stop closures and the
\* listener; closeDevTools follows and changes nothing here.
CaptureStartMouseTracking(ok) ==
    /\ capture.pc = "startMouseTracking"
    /\ capture' = IF ok
                  THEN [capture EXCEPT !.pc = "delay200",
                                       !.stopMouseTracking = "set",
                                       !.stopMouseListener = "set"]
                  ELSE [capture EXCEPT !.pc = "delay200"]
    /\ mainTracking' = IF ok THEN MainStarts(mainTracking) ELSE mainTracking
    /\ mouseListeners' = IF ok THEN Append(mouseListeners, MouseListener(capture))
                          ELSE mouseListeners
    /\ UNCHANGED exportCursorData
    /\ UNCHANGED <<exportProgress, exportStatus>>
    /\ UNCHANGED <<isElectron, backendAvailable, isPlaying, previousTimeRef,
                   isExporting, isCaptureMode, isRecording, showExportModal,
                   exportRecorderRef, exportRun, recordings, mediaRecorderRef, runs>>
    /\ TimelineKept
    /\ CaptureBackground

\* The 200 ms timer; then getDesktopSources or getDisplayMedia is asked.
CaptureDelayElapsed ==
    /\ capture.pc = "delay200"
    /\ capture' = [capture EXCEPT !.pc = IF isElectron THEN "getDesktopSources"
                                         ELSE "getStream"]
    /\ UNCHANGED <<exportProgress, exportStatus>>
    /\ UNCHANGED <<isElectron, backendAvailable, isPlaying, previousTimeRef,
                   isExporting, isCaptureMode, isRecording, showExportModal,
                   exportRecorderRef, exportRun, recordings, mediaRecorderRef, runs>>
    /\ TimelineKept
    /\ Background

SourceResults == {"ok", "empty", "rejected"}

CaptureGetDesktopSources(result) ==
    /\ capture.pc = "getDesktopSources"
    /\ capture' = IF result = "ok" THEN [capture EXCEPT !.pc = "getStream"]
                  ELSE CaptureThrows(capture, "Error")
    /\ UNCHANGED <<exportProgress, exportStatus>>
    /\ UNCHANGED <<isElectron, backendAvailable, isPlaying, previousTimeRef,
                   isExporting, isCaptureMode, isRecording, showExportModal,
                   exportRecorderRef, exportRun, recordings, mediaRecorderRef, runs>>
    /\ TimelineKept
    /\ Background

\* getUserMedia / getDisplayMedia settles; on a stream the recorder is
\* constructed, put in exportRecorderRef, given its handlers and started,
\* all in one stretch.
StreamResults == {"ok", "NotAllowedError", "Error", "constructorThrows", "startThrows"}

CaptureWithStream(c, result) ==
    CASE result = "ok" -> [c EXCEPT !.pc = "capturing", !.stream = "live",
                                    !.recorder = "recording"]
      [] result \in {"NotAllowedError", "Error"} -> CaptureThrows(c, result)
      [] OTHER -> [CaptureThrows(c, "Error") EXCEPT !.stream = "live"]

CaptureGetStream(result) ==
    /\ capture.pc = "getStream"
    /\ capture' = CaptureWithStream(capture, result)
    /\ exportRecorderRef' = IF result \in {"ok", "startThrows"} THEN TRUE
                            ELSE exportRecorderRef
    /\ UNCHANGED <<exportProgress, exportStatus>>
    /\ UNCHANGED <<isElectron, backendAvailable, isPlaying, previousTimeRef,
                   isExporting, isCaptureMode, isRecording, showExportModal,
                   exportRun, recordings, mediaRecorderRef, runs>>
    /\ TimelineKept
    /\ Background

\* What recorder.onerror and recorder.onstop both do before they settle.
CaptureReleased(c) ==
    [c EXCEPT !.pc = "idle", !.stream = "stopped", !.recorder = "stopped",
              !.stopMouseTracking = IF @ = "set" THEN "called" ELSE @,
              !.stopMouseListener = IF @ = "set" THEN "called" ELSE @]

\* recorder.onerror
ExportRecorderError ==
    /\ capture.recorder = "recording"
    /\ capture' = [CaptureReleased(capture) EXCEPT !.promise = "Error"]
    /\ exportRecorderRef' = FALSE
    /\ mouseListeners' = ListenersAfterRelease(capture, mouseListeners)
    /\ mainTracking' = MainAfterRelease(capture, mainTracking)
    /\ UNCHANGED exportCursorData
    /\ UNCHANGED <<exportProgress, exportStatus>>
    /\ UNCHANGED <<isElectron, backendAvailable, isPlaying, previousTimeRef,
                   isExporting, isCaptureMode, isRecording, showExportModal,
                   exportRun, recordings, mediaRecorderRef, runs>>
    /\ TimelineKept
    /\ CaptureBackground

\* videoTrack.onended: the captured window went away or sharing was stopped.
ExportTrackEnded ==
    /\ capture.stream = "live"
    /\ capture.recorder = "recording"
    /\ capture' = [capture EXCEPT !.recorder = "stopping"]
    /\ UNCHANGED <<exportProgress, exportStatus>>
    /\ UNCHANGED <<isElectron, backendAvailable, isPlaying, previousTimeRef,
                   isExporting, isCaptureMode, isRecording, showExportModal,
                   exportRecorderRef, exportRun, recordings, mediaRecorderRef, runs>>
    /\ TimelineKept
    /\ Background

\* recorder.onstop, after stop() was called; hasChunks: some data arrived.
ExportRecorderStopped(hasChunks) ==
    /\ capture.recorder = "stopping"
    /\ capture' = [CaptureReleased(capture) EXCEPT
                      !.promise = IF hasChunks THEN "resolved" ELSE "Error"]
    /\ exportRecorderRef' = FALSE
    /\ mouseListeners' = ListenersAfterRelease(capture, mouseListeners)
    /\ mainTracking' = MainAfterRelease(capture, mainTracking)
    /\ UNCHANGED exportCursorData
    /\ UNCHANGED <<exportProgress, exportStatus>>
    /\ UNCHANGED <<isElectron, backendAvailable, isPlaying, previousTimeRef,
                   isExporting, isCaptureMode, isRecording, showExportModal,
                   exportRun, recordings, mediaRecorderRef, runs>>
    /\ TimelineKept
    /\ CaptureBackground

(* handleExport, handleBackendExport *)

\* The menu entry of a format.  With the backend there, MP4 only opens the
\* export dialog; otherwise the recorder export begins.
HandleExport(format) ==
    /\ HeaderShown
    /\ IF backendAvailable = "true" /\ format = "mp4"
       THEN /\ showExportModal' = TRUE
            /\ UNCHANGED <<isExporting, isCaptureMode, currentTime, capture,
                           exportRun, runs, exportCursorData>>
       ELSE /\ runs < MaxRuns
            /\ runs' = runs + 1
            /\ isExporting' = TRUE
            /\ showExportModal' = FALSE
            /\ isCaptureMode' = TRUE
            /\ currentTime' = 0
            /\ capture' = CaptureBegins(isElectron)
            /\ exportCursorData' = << >>
            /\ exportRun' = [NoExport EXCEPT !.pc = "delay250", !.path = "recorder"]
    /\ UNCHANGED <<mouseListeners, mainTracking>>
    /\ UNCHANGED <<exportProgress, exportStatus>>
    /\ UNCHANGED <<isElectron, backendAvailable, isPlaying, previousTimeRef,
                   isRecording, exportRecorderRef, recordings, mediaRecorderRef>>
    /\ UNCHANGED <<clips, selectedClipId, nextId>>
    /\ CaptureBackground

CloseExportModal ==
    /\ showExportModal
    /\ ~isCaptureMode
    /\ ~isExporting
    /\ showExportModal' = FALSE
    /\ UNCHANGED <<exportProgress, exportStatus>>
    /\ UNCHANGED <<isElectron, backendAvailable, isPlaying, previousTimeRef,
                   isExporting, isCaptureMode, isRecording, exportRecorderRef,
                   exportRun, capture, recordings, mediaRecorderRef, runs>>
    /\ TimelineKept
    /\ Background

\* The 250 ms timer of handleExport.  Outside Electron the 200 ms timer of
\* the capture was started before it, so it has fired before.
HandleExportDelayElapsed ==
    /\ exportRun.pc = "delay250"
    /\ isElectron \/ capture.pc # "delay200"
    /\ isPlaying' = TRUE
    /\ exportRun' = [exportRun EXCEPT !.pc = "awaitBlob"]
    /\ UNCHANGED <<exportProgress, exportStatus>>
    /\ UNCHANGED <<isElectron, backendAvailable, previousTimeRef, isExporting,
                   isCaptureMode, isRecording, showExportModal, exportRecorderRef,
                   capture, recordings, mediaRecorderRef, runs>>
    /\ TimelineKept
    /\ Background

\* The Export button of the export dialog.
HandleBackendExport ==
    /\ showExportModal
    /\ ~isCaptureMode
    /\ ~isExporting
    /\ runs < MaxRuns
    /\ runs' = runs + 1
    /\ isExporting' = TRUE
    /\ isCaptureMode' = TRUE
    /\ showExportModal' = FALSE
    /\ currentTime' = 0
    /\ capture' = CaptureBegins(isElectron)
    /\ exportCursorData' = << >>
    /\ UNCHANGED <<mouseListeners, mainTracking>>
    /\ isPlaying' = TRUE
    /\ exportRun' = [NoExport EXCEPT !.pc = "awaitBlob", !.path = "backend"]
    /\ exportProgress' = 0
    /\ exportStatus' = "Recording timeline..."
    /\ UNCHANGED <<isElectron, backendAvailable, previousTimeRef, isRecording,
                   exportRecorderRef, recordings, mediaRecorderRef>>
    /\ UNCHANGED <<clips, selectedClipId, nextId>>
    /\ CaptureBackground

\* The message of the error a rejected capture promise carries.
CaptureMessage(promise) ==
    IF promise = "NotAllowedError" THEN "Permission denied" ELSE "Capture failed"

\* await blobPromise / await capturePromise returns or throws.  On the
\* backend path processVideoWithProgress is called and reports its first
\* progress before it awaits.
ExportBlobSettled ==
    /\ exportRun.pc = "awaitBlob"
    /\ capture.promise \in {"resolved", "NotAllowedError", "Error"}
    /\ IF capture.promise = "resolved"
       THEN /\ isPlaying' = FALSE
            /\ previousTimeRef' = PlayEffect(FALSE, previousTimeRef)
            /\ currentTime' = 0
            /\ isCaptureMode' = FALSE
            /\ IF exportRun.path = "recorder"
               THEN /\ exportRun' = [exportRun EXCEPT !.pc = "idle",
                                                      !.outcome = "delivered"]
                    /\ isExporting' = FALSE
                    /\ UNCHANGED <<showExportModal, exportProgress, exportStatus>>
               ELSE /\ exportRun' = [exportRun EXCEPT !.pc = "processing"]
                    /\ showExportModal' = TRUE
                    /\ exportProgress' = 0
                    /\ exportStatus' = "Uploading video..."
                    /\ UNCHANGED isExporting
       ELSE /\ isExporting' = FALSE
            /\ IF exportRun.path = "recorder"
               THEN /\ isCaptureMode' = IF capture.promise = "NotAllowedError"
                                        THEN isCaptureMode ELSE FALSE
                    /\ exportRun' = [exportRun EXCEPT
                                       !.pc = "idle",
                                       !.outcome = IF capture.promise = "NotAllowedError"
                                                   THEN "silent" ELSE "alert",
                                       !.message = IF capture.promise = "NotAllowedError"
                                                   THEN ""
                                                   ELSE CaptureMessage(capture.promise)]
                    /\ UNCHANGED <<exportProgress, exportStatus>>
               ELSE /\ isCaptureMode' = FALSE
                    /\ exportRun' = [exportRun EXCEPT
                                       !.pc = "idle", !.outcome = "alert",
                                       !.message = CaptureMessage(capture.promise)]
                    /\ exportProgress' = 0
                    /\ exportStatus' = ""
            /\ UNCHANGED <<isPlaying, previousTimeRef, currentTime, showExportModal>>
    /\ UNCHANGED <<isElectron, backendAvailable, isRecording, exportRecorderRef,
                   capture, recordings, mediaRecorderRef, runs>>
    /\ UNCHANGED <<clips, selectedClipId, nextId>>
    /\ Background

\* onProgress: what processVideoWithProgress reports while it waits for the
\* job (progress in percent, status text).
ProgressReports ==
    { <<5, "Processing started...">>, <<44, "Processing: 40%">>,
      <<95, "Downloading result...">> }

BackendProgress(report) ==
    /\ exportRun.pc = "processing"
    /\ exportProgress' = report[1]
    /\ exportStatus' = report[2]
    /\ UNCHANGED <<isElectron, backendAvailable, isPlaying, previousTimeRef,
                   isExporting, isCaptureMode, isRecording, showExportModal,
                   exportRecorderRef, exportRun, capture, recordings,
                   mediaRecorderRef, runs>>
    /\ TimelineKept
    /\ Background

\* How processVideoWithProgress ends: with the result after a completed
\* status, with the error of a failed status, or with the error of a
\* request that failed.
ProcessingReplies ==
    { [status |-> "completed", error |-> ""],
      [status |-> "failed", error |-> "Cursor overlay failed"],
      [status |-> "failed", error |-> ""],
      [status |-> "rejected", error |-> "Failed to get job status"] }

\* A version that forgets the service's message.
ThrownMessageGeneric(reply) == "Processing failed"

\* status.error || 'Processing failed'
ThrownMessage(reply) == IF reply.error # "" THEN reply.error ELSE "Processing failed"

\* processVideoWithProgress settles; the result is downloaded or the error
\* is reported, and the finally block resets the flags.
BackendProcessed(reply) ==
    /\ exportRun.pc = "processing"
    /\ exportRun' = [exportRun EXCEPT
                       !.pc = "idle",
                       !.outcome = IF reply.status = "completed" THEN "delivered"
                                   ELSE "alert",
                       !.message = IF reply.status = "completed" THEN ""
                                   ELSE ThrownMessage(reply),
                       !.reply = reply]
    /\ showExportModal' = IF reply.status = "completed" THEN FALSE ELSE showExportModal
    /\ isCaptureMode' = FALSE
    /\ isExporting' = FALSE
    /\ exportProgress' = 0
    /\ exportStatus' = ""
    /\ UNCHANGED <<isElectron, backendAvailable, isPlaying, previousTimeRef,
                   isRecording, exportRecorderRef, capture, recordings,
                   mediaRecorderRef, runs>>
    /\ TimelineKept
    /\ Background

(* startRecording, stopRecording *)

\* The run of startRecording begun by the latest click on Record.
NewRecording(electron) ==
    [pc |-> IF electron THEN "getDesktopSources" ELSE "getStream",
     stream |-> "none", recorder |-> "none", outcome |-> "none"]

\* The Record button, while it reads Record.  isRecording is set only when
\* the recorder of a run has started, so the button can begin a second run
\* while an earlier one is still acquiring its stream.
StartRecording ==
    /\ HeaderShown
    /\ ~isRecording
    /\ runs < MaxRuns
    /\ runs' = runs + 1
    /\ recordings' = Append(recordings, NewRecording(isElectron))
    /\ UNCHANGED <<exportProgress, exportStatus>>
    /\ UNCHANGED <<isElectron, backendAvailable, isPlaying, previousTimeRef,
                   isExporting, isCaptureMode, isRecording, showExportModal,
                   exportRecorderRef, exportRun, capture, mediaRecorderRef>>
    /\ TimelineKept
    /\ Background

\* The catch block: a NotAllowedError is dropped, anything else is reported.
RecordingThrows(r, err) ==
    [r EXCEPT !.pc = "idle",
              !.outcome = IF err = "NotAllowedError" THEN "silent" ELSE "alert"]

RecordingGetDesktopSources(i, result) ==
    /\ recordings[i].pc = "getDesktopSources"
    /\ recordings' = [recordings EXCEPT ![i] =
                         IF result = "ok" THEN [@ EXCEPT !.pc = "getStream"]
                         ELSE RecordingThrows(@, "Error")]
    /\ UNCHANGED <<exportProgress, exportStatus>>
    /\ UNCHANGED <<isElectron, backendAvailable, isPlaying, previousTimeRef,
                   isExporting, isCaptureMode, isRecording, showExportModal,
                   exportRecorderRef, exportRun, capture, mediaRecorderRef, runs>>
    /\ TimelineKept
    /\ Background

RecordingGetStream(i, result) ==
    /\ recordings[i].pc = "getStream"
    /\ recordings' = [recordings EXCEPT ![i] =
                         IF result = "ok"
                         THEN [@ EXCEPT !.pc = "delay200", !.stream = "live"]
                         ELSE RecordingThrows(@, result)]
    /\ UNCHANGED <<exportProgress, exportStatus>>
    /\ UNCHANGED <<isElectron, backendAvailable, isPlaying, previousTimeRef,
                   isExporting, isCaptureMode, isRecording, showExportModal,
                   exportRecorderRef, exportRun, capture, mediaRecorderRef, runs>>
    /\ TimelineKept
    /\ Background

\* After the 200 ms: the recorder is constructed, put in mediaRecorderRef,
\* given its handlers and started, and isRecording is set.
RecorderResults == {"ok", "constructorThrows", "startThrows"}

RecordingWithRecorder(r, result) ==
    IF result = "ok"
    THEN [r EXCEPT !.pc = "recording", !.recorder = "recording"]
    ELSE RecordingThrows(r, "Error")

RecordingDelayElapsed(i, result) ==
    /\ recordings[i].pc = "delay200"
    /\ recordings' = [recordings EXCEPT ![i] = RecordingWithRecorder(@, result)]
    /\ mediaRecorderRef' = IF result = "constructorThrows" THEN mediaRecorderRef ELSE i
    /\ isRecording' = IF result = "ok" THEN TRUE ELSE isRecording
    /\ UNCHANGED <<exportProgress, exportStatus>>
    /\ UNCHANGED <<isElectron, backendAvailable, isPlaying, previousTimeRef,
                   isExporting, isCaptureMode, showExportModal, exportRecorderRef,
                   exportRun, capture, runs>>
    /\ TimelineKept
    /\ Background

\* stopRecording: what it does to the run i, given the run in mediaRecorderRef.
StoppedByButton(ref, i, r) ==
    IF i = ref /\ r.recorder = "recording" THEN [r EXCEPT !.recorder = "stopping"]
    ELSE r

\* The Record button while it reads Stop Recording.
StopRecording ==
    /\ HeaderShown
    /\ isRecording
    /\ recordings' = [i \in DOMAIN recordings |->
                         StoppedByButton(mediaRecorderRef, i, recordings[i])]
    /\ UNCHANGED <<exportProgress, exportStatus>>
    /\ UNCHANGED <<isElectron, backendAvailable, isPlaying, previousTimeRef,
                   isExporting, isCaptureMode, isRecording, showExportModal,
                   exportRecorderRef, exportRun, capture, mediaRecorderRef, runs>>
    /\ TimelineKept
    /\ Background

\* track.onended of the recorded stream
RecordingTrackEnded(i) ==
    /\ recordings[i].stream = "live"
    /\ recordings[i].recorder = "recording"
    /\ recordings' = [recordings EXCEPT ![i].recorder = "stopping"]
    /\ UNCHANGED <<exportProgress, exportStatus>>
    /\ UNCHANGED <<isElectron, backendAvailable, isPlaying, previousTimeRef,
                   isExporting, isCaptureMode, isRecording, showExportModal,
                   exportRecorderRef, exportRun, capture, mediaRecorderRef, runs>>
    /\ TimelineKept
    /\ Background

\* handleStop, up to its await of the metadata
RecordingStopped(i) ==
    /\ recordings[i].recorder = "stopping"
    /\ recordings' = [recordings EXCEPT ![i] =
                         [@ EXCEPT !.pc = "metadata", !.stream = "stopped",
                                   !.recorder = "stopped"]]
    /\ isRecording' = FALSE
    /\ UNCHANGED <<exportProgress, exportStatus>>
    /\ UNCHANGED <<isElectron, backendAvailable, isPlaying, previousTimeRef,
                   isExporting, isCaptureMode, showExportModal, exportRecorderRef,
                   exportRun, capture, mediaRecorderRef, runs>>
    /\ TimelineKept
    /\ Background

\* handleStop, after the metadata: the clip of the recording replaces the
\* demo clip.
RecordingClipCreated(i, media) ==
    /\ recordings[i].pc = "metadata"
    /\ clips' = Append(SelectSeq(clips, LAMBDA c : c.name # "Demo Project"),
                       [id |-> nextId, startTime |-> 0, duration |-> media.duration,
                        name |-> "Screen Recording", type |-> "video",
                        width |-> media.width, height |-> media.height,
                        source |-> <<"blob:", media.url>>])
    /\ selectedClipId' = nextId
    /\ nextId' = nextId + 1
    /\ currentTime' = 0
    /\ recordings' = [recordings EXCEPT ![i] = [@ EXCEPT !.pc = "idle", !.outcome = "clip"]]
    /\ UNCHANGED <<exportProgress, exportStatus>>
    /\ UNCHANGED <<isElectron, backendAvailable, isPlaying, previousTimeRef,
                   isExporting, isCaptureMode, isRecording, showExportModal,
                   exportRecorderRef, exportRun, capture, mediaRecorderRef, runs>>
    /\ Background

ExportNext ==
    \/ \E available \in BOOLEAN : BackendHealthResolved(available)
    \/ TogglePlay
    \/ \E deltaTime \in PlaybackDeltas : Animate(deltaTime)
    \/ \E result \in BoundsResults : CaptureGetWindowBounds(result)
    \/ \E ok \in BOOLEAN : CaptureStartMouseTracking(ok)
    \/ CaptureDelayElapsed
    \/ \E result \in SourceResults : CaptureGetDesktopSources(result)
    \/ \E result \in StreamResults : CaptureGetStream(result)
    \/ ExportRecorderError
    \/ ExportTrackEnded
    \/ \E hasChunks \in BOOLEAN : ExportRecorderStopped(hasChunks)
    \/ \E format \in {"mp4", "gif"} : HandleExport(format)
    \/ CloseExportModal
    \/ HandleExportDelayElapsed
    \/ HandleBackendExport
    \/ ExportBlobSettled
    \/ \E report \in ProgressReports : BackendProgress(report)
    \/ \E reply \in ProcessingReplies : BackendProcessed(reply)
    \/ StartRecording
    \/ \E i \in DOMAIN recordings, result \in SourceResults :
          RecordingGetDesktopSources(i, result)
    \/ \E i \in DOMAIN recordings, result \in {"ok", "NotAllowedError", "Error"} :
          RecordingGetStream(i, result)
    \/ \E i \in DOMAIN recordings, result \in RecorderResults :
          RecordingDelayElapsed(i, result)
    \/ StopRecording
    \/ \E i \in DOMAIN recordings : RecordingTrackEnded(i)
    \/ \E i \in DOMAIN recordings : RecordingStopped(i)
    \/ \E i \in DOMAIN recordings, media \in RecordedMedia :
          RecordingClipCreated(i, media)

\* The app in Electron or in a browser.
ExportInit == \E electron \in BOOLEAN : InitApp(electron)

ExportSpec == ExportInit /\ [][ExportNext]_vars

----------------------------------------------------------------------------
(* Playback against the clock.                                             *)
(*                                                                         *)
(* The export model above keeps only whether previousTimeRef holds a time  *)
(* and takes the time between two frames as an input.  Here the clock is   *)
(* explicit: time passes, requestAnimationFrame hands animate the clock,   *)
(* and the advance of currentTime is computed from previousTimeRef as      *)
(* animate computes it.                                                    *)

\* The clock stops at MaxClock seconds.
MaxClock == 20

\* Time that passes between two events.
TimeSteps == {Seconds(1), Seconds(6)}

\* What a playback event leaves alone.
PlaybackKept ==
    /\ UNCHANGED <<clips, zooms, selectedClipId, selectedZoomId, timelineScale,
                   dragState, listener, nextId, steps, hist>>
    /\ UNCHANGED cameraInputs
    /\ UNCHANGED <<isElectron, backendAvailable, isExporting, isCaptureMode,
                   isRecording, showExportModal, exportRecorderRef, exportRun,
                   capture, recordings, mediaRecorderRef, exportProgress,
                   exportStatus, runs>>
    /\ UNCHANGED <<projectVars, job, layout, trackingVars>>
    /\ Rendered

TimePasses(d) ==
    /\ now + d <= Seconds(MaxClock)
    /\ now' = now + d
    /\ UNCHANGED <<currentTime, isPlaying, previousTimeRef, previousTime, sessionFrame>>
    /\ lastEvent' = Event("time", "none", 0, "none", 0)
    /\ PlaybackKept

\* togglePlay and the play/pause effect of the render that follows.
PlayPause ==
    /\ isPlaying' = ~isPlaying
    /\ previousTimeRef' = PlayEffect(isPlaying', previousTimeRef)
    /\ previousTime' = HeldTime(previousTimeRef', previousTime)
    /\ sessionFrame' = NoFrame
    /\ UNCHANGED <<currentTime, now>>
    /\ lastEvent' = Event("togglePlay", "none", 0, "none", 0)
    /\ PlaybackKept

\* animate(time), called with the clock; a frame that was requested before a
\* pause may still arrive after it.
AnimationFrame ==
    /\ IF ~isPlaying
       THEN /\ previousTimeRef' = FALSE
            /\ previousTime' = 0
            /\ UNCHANGED <<currentTime, isPlaying>>
       ELSE IF ~previousTimeRef
       THEN /\ previousTimeRef' = TRUE
            /\ previousTime' = now
            /\ UNCHANGED <<currentTime, isPlaying>>
       ELSE LET deltaTime == now - previousTime
                next == currentTime + deltaTime
            IN  IF next >= timelineDuration(clips, zooms)
                THEN /\ isPlaying' = FALSE
                     /\ currentTime' = 0
                     /\ previousTimeRef' = PlayEffect(FALSE, TRUE)
                     /\ previousTime' = HeldTime(previousTimeRef', now)
                ELSE /\ currentTime' = next
                     /\ previousTimeRef' = TRUE
                     /\ previousTime' = now
                     /\ UNCHANGED isPlaying
    /\ sessionFrame' = IF isPlaying' THEN now ELSE NoFrame
    /\ UNCHANGED now
    /\ lastEvent' = Event("frame", "none", 0, "none", 0)
    /\ PlaybackKept

PlaybackNext ==
    \/ \E d \in TimeSteps : TimePasses(d)
    \/ PlayPause
    \/ AnimationFrame

PlaybackSpec == Init /\ [][PlaybackNext]_vars

----------------------------------------------------------------------------
(* The playhead on a timeline that grows and shrinks *)

\* Pointer positions on the track: left of it, at 14 s of the default scale,
\* and right of its end.
PlayheadXs == {-80, 1120, 1600}

PlayheadNext ==
    \/ \E x \in PlayheadXs : HandleScrubStart(x)
    \/ \E x \in PlayheadXs : MouseMove(x)
    \/ MouseUp
    \/ \E i \in 1..MaxZooms, x \in PlayheadXs : OnZoomInteraction(i, "resize", x)
    \/ \E i \in 1..MaxClips : OnClipInteraction(i, "resize", 1120)
    \/ AddZoom
    \/ RemoveZoom
    \/ ClearZooms
    \/ HandleDeleteClip
    \/ \E project \in SavedProjects : LoadProject(project)
    \/ TogglePlay
    \/ Animate(Seconds(5))

PlayheadSpec == Init /\ [][PlayheadNext]_vars

----------------------------------------------------------------------------
(* Pointer samples of a capture *)

MaxSamples == 2

\* Screen positions robot.getMousePos() gives: left of the window at a quarter
\* of its height, and right of and below it.
MousePositions == {<<40, 200>>, <<1000, 700>>}

\* Time between two events of the capture.
TrackingSteps == {Seconds(10)}

\* Math.max(0, Math.min(1, (v - origin) / extent)), in thousandths
Normalized(v, origin, extent) == Max(0, Min(1000, ((v - origin) * 1000) \div extent))

\* The sample pushed without the clamp.
SampleUnclamped(l, pos, time) ==
    [by |-> l.run,
     x |-> ((pos[1] - l.bounds.x) * 1000) \div l.bounds.width,
     y |-> ((pos[2] - l.bounds.y) * 1000) \div l.bounds.height,
     time |-> time - l.captureStart]

\* The sample the listener l pushes for a message received at time.
Sample(l, pos, time) ==
    [by |-> l.run,
     x |-> Normalized(pos[1], l.bounds.x, l.bounds.width),
     y |-> Normalized(pos[2], l.bounds.y, l.bounds.height),
     time |-> time - l.captureStart]

\* The listeners that push: bounds is there, nx and ny are finite.
Pushing(ls) ==
    SelectSeq(ls, LAMBDA l : ~l.bounds.null /\ l.bounds.width # 0 /\ l.bounds.height # 0)

\* The last two positions sent to the window.
LastSent(sent, pos) == IF sent = << >> THEN << pos >> ELSE << sent[Len(sent)], pos >>

\* A tick of the interval timer of the main process that finds the pointer
\* moved: the position is sent to the window and every attached listener
\* handles it, in the order of registration.
MousePosition(pos) ==
    /\ mainTracking.timers > 0
    /\ pos # mainTracking.last
    /\ Len(exportCursorData) < MaxSamples
    /\ mainTracking' = [mainTracking EXCEPT
                           !.last = pos,
                           !.sent = IF mainTracking.window THEN LastSent(@, pos) ELSE @]
    /\ exportCursorData' =
          IF mainTracking.window
          THEN exportCursorData
               \o [i \in DOMAIN Pushing(mouseListeners) |->
                      Sample(Pushing(mouseListeners)[i], pos, now)]
          ELSE exportCursorData
    /\ UNCHANGED mouseListeners
    /\ UNCHANGED <<storeVars, cameraInputs, cameraVars, captureVars, clockVars,
                   projectVars, job, layout, steps, lastEvent, hist>>

TrackingNext ==
    \/ \E available \in BOOLEAN : BackendHealthResolved(available)
    \/ \E result \in BoundsResults \cup {[ok |-> TRUE, bounds |-> NoBounds]} :
          CaptureGetWindowBounds(result)
    \/ \E ok \in BOOLEAN : CaptureStartMouseTracking(ok)
    \/ CaptureDelayElapsed
    \/ \E result \in SourceResults : CaptureGetDesktopSources(result)
    \/ \E result \in {"ok", "Error"} : CaptureGetStream(result)
    \/ ExportRecorderError
    \/ ExportTrackEnded
    \/ \E hasChunks \in BOOLEAN : ExportRecorderStopped(hasChunks)
    \/ HandleExport("mp4")
    \/ HandleBackendExport
    \/ ExportBlobSettled
    \/ \E reply \in ProcessingReplies : BackendProcessed(reply)
    \/ \E d \in TrackingSteps : TimePasses(d)
    \/ \E pos \in MousePositions : MousePosition(pos)

TrackingSpec == Init /\ [][TrackingNext]_vars

----------------------------------------------------------------------------
(* The main process alone: requests to start and stop the tracking *)

\* Screen positions the pointer is found at.
MainPositions == {<<0, 0>>, <<40, 200>>, <<1000, 700>>}

MainKept ==
    UNCHANGED <<storeVars, cameraInputs, cameraVars, captureVars, clockVars,
                projectVars, job, layout, steps, lastEvent, hist,
                exportCursorData, mouseListeners>>

\* ipcMain.handle('start-mouse-tracking')
StartMouseTrackingRequest ==
    /\ mainTracking' = MainStarts(mainTracking)
    /\ MainKept

\* ipcMain.handle('stop-mouse-tracking')
StopMouseTrackingRequest ==
    /\ mainTracking' = MainStops(mainTracking)
    /\ MainKept

\* mainWindow.on('closed'), and app.on('activate') with no window open
WindowClosed ==
    /\ mainTracking.window
    /\ mainTracking' = [mainTracking EXCEPT !.window = FALSE]
    /\ MainKept

WindowCreated ==
    /\ ~mainTracking.window
    /\ mainTracking' = [mainTracking EXCEPT !.window = TRUE]
    /\ MainKept

MainNext ==
    \/ StartMouseTrackingRequest
    \/ StopMouseTrackingRequest
    \/ WindowClosed
    \/ WindowCreated
    \/ \E pos \in MainPositions : MousePosition(pos)

MainSpec == Init /\ [][MainNext]_vars

----------------------------------------------------------------------------
(* Saving the project and asking for zoom suggestions *)

\* c.source.startsWith('blob:')
StartsWithBlob(source) == Len(source) > 0 /\ source[1] = "blob:"

\* A save that writes every clip as it is.
SafeClipKeepsSource(c) == c

\* The clip as saveProject writes it: { ...c, source: undefined } for a
\* truthy source that starts with 'blob:'.
SafeClip(c) ==
    IF c.source # NoSource /\ StartsWithBlob(c.source)
    THEN [c EXCEPT !.source = NoSource]
    ELSE c

safeClips(cs) == [i \in DOMAIN cs |-> SafeClip(cs[i])]

\* A press of a button of the project: what the save and the request for
\* suggestions leave alone.
ProjectKept ==
    /\ steps < MaxSteps
    /\ steps' = steps + 1
    /\ UNCHANGED <<clips, selectedClipId, currentTime, timelineScale, dragState,
                   listener, hist>>
    /\ UNCHANGED <<cameraInputs, captureVars, clockVars, job, layout, trackingVars>>
    /\ Rendered

\* How the writing ends: the file or the localStorage item is written, the
\* save dialog is canceled, or the writing throws.
SaveResults == {"saved", "canceled", "failed"}

\* The project as saveProject serializes it.
ProjectSnapshot ==
    [saved |-> TRUE, config |-> config, contentScale |-> contentScale,
     aspectRatio |-> aspectRatio, showWindowFrame |-> showWindowFrame,
     appearance |-> appearance, zooms |-> zooms, clips |-> safeClips(clips)]

\* The Save button of the header: the snapshot is built and handed to the
\* save dialog or to localStorage.
SaveProject(result) ==
    /\ HeaderShown
    /\ result = "canceled" => isElectron
    /\ savedProject' = IF result = "saved" THEN ProjectSnapshot ELSE savedProject
    /\ UNCHANGED <<zooms, selectedZoomId, nextId, isAnalyzingZooms, analysis,
                   appearance>>
    /\ lastEvent' = Event("saveProject", "none", 0, result, 0)
    /\ ProjectKept

\* clips.find(c => c.type === 'video' && c.source), 0 when there is none
FirstSourcedVideo(cs) ==
    LET S == {i \in DOMAIN cs : cs[i].type = "video" /\ cs[i].source # NoSource}
    IN  IF S = {} THEN 0 ELSE CHOOSE i \in S : \A j \in S : i <= j

\* 20 + Math.random() * 60 of the generated zooms: an x and a y in percent.
RandomPositions == {<<20, 79>>}

\* The three zooms generated when no clip has a source.
GeneratedZooms(duration, firstId, x, y) ==
    [i \in 1..3 |-> [id |-> firstId + i - 1,
                     startTime |-> (i * duration) \div 4,
                     duration |-> Seconds(5) \div 2,
                     x |-> x, y |-> y, scale10 |-> 15]]

\* What a call of analyzeVideoForZooms meets: whether process.env.API_KEY is
\* set, how many frames are extracted, and what generateContent gives back
\* (it rejects, or its text is a JSON array of so many zooms).
AnalysisOutcomes ==
    { [apiKey |-> FALSE, frames |-> 0, response |-> "none", count |-> 0],
      [apiKey |-> TRUE, frames |-> 0, response |-> "none", count |-> 0],
      [apiKey |-> TRUE, frames |-> 2, response |-> "rejected", count |-> 0],
      [apiKey |-> TRUE, frames |-> 2, response |-> "array", count |-> 0],
      [apiKey |-> TRUE, frames |-> 2, response |-> "array", count |-> 1] }

\* rawZooms.map(...) of a reply with count zooms
SuggestedZooms(count, firstId) ==
    [i \in 1..count |-> [id |-> firstId + i - 1, startTime |-> Seconds(i),
                         duration |-> Seconds(2), x |-> 30, y |-> 70,
                         scale10 |-> 20]]

analyzeVideoForZooms(outcome, firstId) ==
    CASE ~outcome.apiKey -> << >>
      [] outcome.frames = 0 -> << >>
      [] outcome.response = "array" -> SuggestedZooms(outcome.count, firstId)
      [] OTHER -> << >>

\* A handler that installs whatever list it was given.
ZoomsAfterSuggestionsAlways(zs, generatedZooms, clipStart) ==
    [i \in DOMAIN generatedZooms |->
        [generatedZooms[i] EXCEPT !.startTime = @ + clipStart]]

\* if (generatedZooms.length > 0) setZooms(adjustedZooms) else alert(...)
ZoomsAfterSuggestions(zs, generatedZooms, clipStart) ==
    IF Len(generatedZooms) > 0
    THEN [i \in DOMAIN generatedZooms |->
             [generatedZooms[i] EXCEPT !.startTime = @ + clipStart]]
    ELSE zs

\* The Auto-Gen button: without a video clip that has a source three zooms
\* are generated at once; otherwise the suggestions are asked for.
AutoGenerateZooms(x, y) ==
    /\ ~isAnalyzingZooms
    /\ IF FirstSourcedVideo(clips) = 0
       THEN /\ zooms' = GeneratedZooms(timelineDuration(clips, zooms), nextId, x, y)
            /\ selectedZoomId' = 0
            /\ nextId' = nextId + 3
            /\ UNCHANGED <<isAnalyzingZooms, analysis>>
       ELSE /\ isAnalyzingZooms' = TRUE
            /\ analysis' = [pc |-> "analyzing",
                            clipStart |-> clips[FirstSourcedVideo(clips)].startTime,
                            zooms |-> zooms]
            /\ UNCHANGED <<zooms, selectedZoomId, nextId>>
    /\ UNCHANGED <<savedProject, appearance>>
    /\ lastEvent' = Event("autoGenerate", "none", 0, "none", 0)
    /\ ProjectKept

\* await analyzeVideoForZooms(...) returns.
AnalysisSettled(outcome) ==
    /\ analysis.pc = "analyzing"
    /\ zooms' = ZoomsAfterSuggestions(zooms, analyzeVideoForZooms(outcome, nextId),
                                      analysis.clipStart)
    /\ nextId' = nextId + Len(analyzeVideoForZooms(outcome, nextId))
    /\ isAnalyzingZooms' = FALSE
    /\ selectedZoomId' = 0
    /\ analysis' = [pc |-> "idle", outcome |-> outcome]
    /\ UNCHANGED <<savedProject, appearance>>
    /\ lastEvent' = Event("suggestions", "none", 0, "none", 0)
    /\ UNCHANGED <<clips, selectedClipId, currentTime, timelineScale, dragState,
                   listener, steps, hist>>
    /\ UNCHANGED <<cameraInputs, captureVars, clockVars, job, layout, trackingVars>>
    /\ Rendered

ProjectNext ==
    \/ \E result \in SaveResults : SaveProject(result)
    \/ \E at \in RandomPositions : AutoGenerateZooms(at[1], at[2])
    \/ \E outcome \in AnalysisOutcomes : AnalysisSettled(outcome)
    \/ \E project \in SavedProjects : LoadProject(project)
    \/ StartRecording
    \/ \E i \in DOMAIN recordings : RecordingGetDesktopSources(i, "ok")
    \/ \E i \in DOMAIN recordings : RecordingGetStream(i, "ok")
    \/ \E i \in DOMAIN recordings : RecordingDelayElapsed(i, "ok")
    \/ StopRecording
    \/ \E i \in DOMAIN recordings : RecordingStopped(i)
    \/ \E i \in DOMAIN recordings, media \in RecordedMedia :
          RecordingClipCreated(i, media)

ProjectSpec == Init /\ [][ProjectNext]_vars

\* The settings a control of the appearance panels can change a to: the
\* ends of the two sliders, the camera checkbox, a background.
AppearanceChoices(a) ==
    ( { [a EXCEPT !.borderRadius = v] : v \in {0, 60} }
      \cup { [a EXCEPT !.backgroundBlur = v] : v \in {0, 20} }
      \cup { [a EXCEPT !.showCamera = ~@], [a EXCEPT !.background = "grid"] } ) \ {a}

\* A control of the appearance panels.
SetAppearance(a) ==
    /\ steps < MaxSteps
    /\ steps' = steps + 1
    /\ appearance' = a
    /\ lastEvent' = [Event("setAppearance", "none", 0, "none", 0) EXCEPT
                        !.prev = dragState,
                        !.zoom = activeZoom(zooms, currentTime).id]
    /\ UNCHANGED <<storeVars, cameraInputs, captureVars, clockVars, savedProject,
                   isAnalyzingZooms, analysis, job, layout, trackingVars>>
    /\ HistOther
    /\ Rendered

\* JSON.parse(localStorage.getItem(STORAGE_KEY)): the item is the snapshot of
\* the last save that reached localStorage.
LoadStoredProject ==
    /\ ~isElectron
    /\ savedProject.saved
    /\ LoadProject(savedProject)

\* The browser: saveProject writes to localStorage.
StorageInit == InitApp(FALSE)

StorageNext ==
    \/ \E a \in AppearanceChoices(appearance) : SetAppearance(a)
    \/ \E s \in {50, 1000} : SetContentScale(s)
    \/ SetAspectRatio("16:9")
    \/ SetShowWindowFrame(FALSE)
    \/ SetConfig(PHYSICS_PRESETS[4])
    \/ AddZoom
    \/ HandleScrubStart(400)
    \/ TogglePlay
    \/ \E result \in {"saved", "failed"} : SaveProject(result)
    \/ LoadStoredProject

StorageSpec == StorageInit /\ [][StorageNext]_vars

\* A project is opened first; then the zoom list is edited while the
\* suggestions are on their way.
AnalysisNext ==
    \/ steps = 0 /\ \E project \in SavedProjects : LoadProject(project)
    \/ \E at \in RandomPositions : AutoGenerateZooms(at[1], at[2])
    \/ \E outcome \in AnalysisOutcomes : AnalysisSettled(outcome)
    \/ AddZoom
    \/ \E p \in CanvasPoints : HandleCanvasDoubleClick(p[1], p[2])
    \/ \E i \in 1..MaxZooms, x \in CameraPointerXs : OnZoomInteraction(i, "move", x)
    \/ \E u \in ZoomUpdates(clips, zooms) : UpdateZoom(u)
    \/ RemoveZoom

AnalysisSpec == Init /\ [][AnalysisNext]_vars

----------------------------------------------------------------------------
(* The sizes of the canvas *)

\* Native sizes of the active clip; the demo clip has none.
LayoutClips ==
    { NoClip, DemoClip }
    \cup { [DemoClip EXCEPT !.name = "Screen Recording", !.width = size[1],
                            !.height = size[2]] :
              size \in {<<1920, 1080>>, <<1920, 1081>>, <<960, 1920>>, <<1920, 540>>} }

\* contentScale, hundredths: the slider gives 0.5 to 10, a loaded project
\* any number.
LayoutScales == {0, 50, 95, 100, 101, 250}

LayoutInit ==
    /\ \E clip \in LayoutClips : clips = IF clip = NoClip THEN << >> ELSE << clip >>
    /\ contentScale \in LayoutScales
    /\ aspectRatio \in AspectRatios
    /\ showWindowFrame \in BOOLEAN
    /\ targetScaleMV = contentScale
    /\ layout = NoLayout
    /\ InitOther(TRUE)

\* A render of EditorCanvas: the container and the window frame are sized.
RenderCanvas ==
    /\ layout.pc = "unmeasured"
    /\ \E clip \in {activeClip(clips, currentTime)} :
        \E container \in {getContainerDimensions(aspectRatio, clip, showWindowFrame,
                                                 contentScale)} :
          layout' = [pc |-> "measured", clip |-> clip, container |-> container,
                     fitted |-> getFittedDimensions(container, clip, showWindowFrame)]
    /\ UNCHANGED <<storeVars, cameraInputs, cameraVars, captureVars, clockVars,
                   projectVars, job, trackingVars, steps, lastEvent, hist>>

LayoutNext == RenderCanvas

LayoutSpec == LayoutInit /\ [][LayoutNext]_vars

----------------------------------------------------------------------------
(* processVideoWithProgress and the processing service *)

\* Nothing but the call and the count of runs changes.
JobKept ==
    /\ UNCHANGED <<isElectron, backendAvailable, isPlaying, previousTimeRef,
                   isExporting, isCaptureMode, isRecording, showExportModal,
                   exportRecorderRef, exportRun, capture, recordings, mediaRecorderRef,
                   exportProgress, exportStatus>>
    /\ UNCHANGED <<storeVars, cameraInputs, cameraVars, clockVars, projectVars,
                   layout, trackingVars, steps, lastEvent, hist>>

Request(call) == [call |-> call, reply |-> "pending"]

\* The last request gets its reply.
Replied(calls, reply) == [calls EXCEPT ![Len(calls)].reply = reply]

\* The call: onProgress(0, ...) and the upload.
ProcessVideoWithProgress ==
    /\ job.pc \in {"idle", "returned", "thrown"}
    /\ runs < MaxRuns
    /\ runs' = runs + 1
    /\ job' = [NoJob EXCEPT !.pc = "submitting", !.calls = << Request("submit") >>]
    /\ JobKept

\* await processVideo(...) settles: with a job id, or it throws.
ProcessVideoSettled(ok) ==
    /\ job.pc = "submitting"
    /\ job' = IF ok
              THEN [job EXCEPT !.pc = "timer", !.server = "processing",
                               !.calls = Replied(@, "ok"), !.progress = 5]
              ELSE [job EXCEPT !.pc = "thrown", !.calls = Replied(@, "rejected"),
                               !.result = "Failed to start processing"]
    /\ UNCHANGED runs
    /\ JobKept

\* The service works on the job: progress in percent, or its end.
ServiceProgress == {40, 90}

ServiceAdvances(status, percent) ==
    /\ job.server = "processing"
    /\ percent > job.serverProgress \/ status # "processing"
    /\ job' = [job EXCEPT !.server = status,
                          !.serverProgress = IF status = "processing" THEN percent ELSE @]
    /\ UNCHANGED runs
    /\ JobKept

\* The 500 ms have passed: getJobStatus is called.
TimerElapsed ==
    /\ job.pc = "timer"
    /\ job.polls < MaxPolls \/ job.server # "processing"
    /\ job' = [job EXCEPT !.pc = "polling", !.polls = @ + 1,
                          !.calls = Append(@, Request("poll"))]
    /\ UNCHANGED runs
    /\ JobKept

\* The replies getJobStatus can give: the status of the job, or it throws.
StatusReplies(j) == {j.server, "rejected"}

\* A loop that goes on polling after a failed status.
AfterStatusIgnoresFailed(j, status) ==
    CASE status = "completed" ->
            [j EXCEPT !.pc = "downloading", !.progress = 95,
                      !.calls = Append(Replied(@, status), Request("download"))]
      [] status = "rejected" ->
            [j EXCEPT !.pc = "thrown", !.calls = Replied(@, status),
                      !.result = "Failed to get job status"]
      [] OTHER ->
            [j EXCEPT !.pc = "timer", !.calls = Replied(@, status),
                      !.progress = 10 + (j.serverProgress * 85) \div 100]

\* The body of the loop after await getJobStatus(jobId).
AfterStatus(j, status) ==
    CASE status = "completed" ->
            [j EXCEPT !.pc = "downloading", !.progress = 95,
                      !.calls = Append(Replied(@, status), Request("download"))]
      [] status = "failed" ->
            [j EXCEPT !.pc = "thrown", !.calls = Replied(@, status),
                      !.result = ThrownMessage([status |-> "failed", error |-> ""])]
      [] status = "rejected" ->
            [j EXCEPT !.pc = "thrown", !.calls = Replied(@, status),
                      !.result = "Failed to get job status"]
      [] OTHER ->
            [j EXCEPT !.pc = "timer", !.calls = Replied(@, status),
                      !.progress = 10 + (j.serverProgress * 85) \div 100]

GetJobStatusSettled(status) ==
    /\ job.pc = "polling"
    /\ job' = AfterStatus(job, status)
    /\ UNCHANGED runs
    /\ JobKept

\* await downloadProcessedVideo(jobId) settles; with the blob, cleanupJob is
\* called.
DownloadSettled(ok) ==
    /\ job.pc = "downloading"
    /\ job' = IF ok
              THEN [job EXCEPT !.pc = "cleaning",
                               !.calls = Append(Replied(@, "ok"), Request("cleanup"))]
              ELSE [job EXCEPT !.pc = "thrown", !.calls = Replied(@, "rejected"),
                               !.result = "Failed to download video"]
    /\ UNCHANGED runs
    /\ JobKept

\* await cleanupJob(jobId) settles: the blob is returned, or the rejection of
\* the fetch is thrown.
CleanupSettled(ok) ==
    /\ job.pc = "cleaning"
    /\ job' = IF ok
              THEN [job EXCEPT !.pc = "returned", !.calls = Replied(@, "ok"),
                               !.progress = 100, !.result = "blob"]
              ELSE [job EXCEPT !.pc = "thrown", !.calls = Replied(@, "rejected"),
                               !.result = "Failed to fetch"]
    /\ UNCHANGED runs
    /\ JobKept

ProcessNext ==
    \/ ProcessVideoWithProgress
    \/ \E ok \in BOOLEAN : ProcessVideoSettled(ok)
    \/ \E status \in {"processing", "completed", "failed"}, percent \in ServiceProgress :
          ServiceAdvances(status, percent)
    \/ TimerElapsed
    \/ \E status \in StatusReplies(job) : GetJobStatusSettled(status)
    \/ \E ok \in BOOLEAN : DownloadSettled(ok)
    \/ \E ok \in BOOLEAN : CleanupSettled(ok)

\* The timer of the loop fires and every request of the call is answered or
\* fails.
ProcessFairness ==
    /\ WF_vars(\E ok \in BOOLEAN : ProcessVideoSettled(ok))
    /\ WF_vars(TimerElapsed)
    /\ WF_vars(\E status \in StatusReplies(job) : GetJobStatusSettled(status))
    /\ WF_vars(\E ok \in BOOLEAN : DownloadSettled(ok))
    /\ WF_vars(\E ok \in BOOLEAN : CleanupSettled(ok))

ProcessSpec == Init /\ [][ProcessNext]_vars /\ ProcessFairness

----------------------------------------------------------------------------
(* Vocabulary of the properties *)

ItemDrags == {"clip", "zoom"}

Pressed(ev) == ev.op \in {"clipDown", "zoomDown"}

\* The press ev is on the target and in the mode of the drag ds.
SameTarget(ev, ds) == ds.type = ev.type /\ ds.id = ev.id /\ ds.mode = ev.mode

\* The item with identity id in the list items.
ItemWithId(items, id) == items[CHOOSE i \in DOMAIN items : items[i].id = id]

HasId(items, id) == \E i \in DOMAIN items : items[i].id = id

\* (pointerX - startX) / pixelsPerSecond, in ticks
DeltaT(x, startX, pps) == ((x - startX) * TicksPerSecond) \div pps

\* The list items with the start of item id set to start.
WithStart(items, id, start) ==
    [i \in DOMAIN items |->
        IF items[i].id = id THEN [items[i] EXCEPT !.startTime = start] ELSE items[i]]

\* The list items with the duration of item id set to dur.
WithDuration(items, id, dur) ==
    [i \in DOMAIN items |->
        IF items[i].id = id THEN [items[i] EXCEPT !.duration = dur] ELSE items[i]]

\* The list of the dragged kind, and the other one.
Dragged(ds, cs, zs) == IF ds.type = "clip" THEN cs ELSE zs
NotDragged(ds, cs, zs) == IF ds.type = "clip" THEN zs ELSE cs

\* What the pointer at x makes of the list items under the drag ds at pps
\* pixels per second, from the values the item had when the drag began.
MovedTo(items, ds, x, pps) ==
    IF ds.mode = "move"
    THEN WithStart(items, ds.id, Max(0, ds.initialStart + DeltaT(x, ds.startX, pps)))
    ELSE WithDuration(items, ds.id,
                      Max(HalfSecond, ds.initialDuration + DeltaT(x, ds.startX, pps)))

----------------------------------------------------------------------------
(* C1 *)

\* C1 as stated: a pointer release during a clip or zoom drag returns to
\* Idle (empty drag state, window handlers detached).
C1_ReleaseEndsItemDrag ==
    [][ (lastEvent'.op = "mouseUp" /\ dragState.type \in ItemDrags)
            => (dragState' = NoDrag /\ listener' = NoDrag) ]_vars

\* C1 amended: a release during a clip or zoom drag changes neither the drag
\* state nor the attached handlers, which stay those of that drag, and the
\* next pointer move still moves or resizes the dragged item; a release
\* during a playhead drag returns to Idle with the handlers detached; and in
\* Idle no handler is attached and no pointer move changes a clip or a zoom.
C1_ReleaseKeepsItemDrag ==
    [][ /\ (lastEvent'.op = "mouseUp" /\ dragState.type \in ItemDrags)
              => (dragState' = dragState /\ listener' = dragState)
        /\ (lastEvent'.op = "mouseUp" /\ dragState.type = "playhead")
              => (dragState' = NoDrag /\ listener' = NoDrag)
        /\ (lastEvent'.op = "mouseMove" /\ dragState.type \in ItemDrags /\ hist.released)
              => /\ Dragged(dragState, clips', zooms')
                      = MovedTo(Dragged(dragState, clips, zooms), dragState,
                                lastEvent'.x, timelineScale)
                 /\ dragState' = dragState
        /\ (dragState'.type = "none") => (listener' = NoDrag)
        /\ (lastEvent'.op = "mouseMove" /\ dragState.type = "none")
              => (clips' = clips /\ zooms' = zooms) ]_vars

\* A pointer move after a release, with only pointer events since the press,
\* has changed the timeline the drag began on.
C1_Witness ==
    /\ lastEvent.op = "mouseMove"
    /\ dragState.type \in ItemDrags
    /\ hist.pure /\ hist.released /\ hist.moved
    /\ <<clips, zooms>> # <<hist.clips, hist.zooms>>

----------------------------------------------------------------------------
(* C2 *)

\* C2: a press on the target and in the mode of the drag in progress ends
\* the drag (Idle, handlers detached) without touching the timeline, and a
\* pointer move changes no clip and no zoom while no drag is in progress.
C2_RepressCancels ==
    [][ /\ (Pressed(lastEvent') /\ SameTarget(lastEvent', dragState))
              => /\ dragState' = NoDrag
                 /\ listener' = NoDrag
                 /\ clips' = clips /\ zooms' = zooms
        /\ (lastEvent'.op = "mouseMove" /\ dragState = NoDrag)
              => (clips' = clips /\ zooms' = zooms /\ dragState' = NoDrag) ]_vars

\* A press on the target and in the mode of the drag in progress led to Idle.
C2_Witness ==
    /\ Pressed(lastEvent)
    /\ lastEvent.prev.type \in ItemDrags
    /\ SameTarget(lastEvent, lastEvent.prev)
    /\ dragState = NoDrag
    /\ listener = NoDrag

----------------------------------------------------------------------------
(* C3 *)

\* The state a press that toggled a drag off leads to, when only pointer
\* moves came between the press that began the drag and this one.
ToggledOffAfterMoves ==
    /\ Pressed(lastEvent)
    /\ lastEvent.prev.type \in ItemDrags
    /\ SameTarget(lastEvent, lastEvent.prev)
    /\ hist.pure /\ ~hist.released

\* C3 as stated: there the timeline is the one the drag began on.
C3_ToggleRestoresTimeline ==
    ToggledOffAfterMoves
        => (dragState = NoDrag /\ clips = hist.clips /\ zooms = hist.zooms)

\* C3 amended: there the system is Idle, every clip and zoom other than the
\* dragged item is as it was when the drag began, and the dragged item is as
\* the last pointer move left it (as it was when the drag began only if no
\* pointer move came in between).
C3_ToggleKeepsLastMove ==
    ToggledOffAfterMoves
        => /\ dragState = NoDrag
           /\ listener = NoDrag
           /\ NotDragged(hist.drag, clips, zooms)
                 = NotDragged(hist.drag, hist.clips, hist.zooms)
           /\ Dragged(hist.drag, clips, zooms)
                 = IF hist.moved
                   THEN MovedTo(Dragged(hist.drag, hist.clips, hist.zooms),
                                hist.drag, hist.lastX, timelineScale)
                   ELSE Dragged(hist.drag, hist.clips, hist.zooms)

\* A drag toggled off after a pointer move that changed the dragged item.
C3_Witness ==
    /\ ToggledOffAfterMoves
    /\ hist.moved
    /\ dragState = NoDrag
    /\ <<clips, zooms>> # <<hist.clips, hist.zooms>>

----------------------------------------------------------------------------
(* C4 *)

\* The time of pixel x at pps pixels per second, kept on the track [0, dur].
TimeOfPixel(x, pps, dur) == Max(0, Min(dur, (x * TicksPerSecond) \div pps))

\* C4 as stated: from every interaction state a press on the ruler or track
\* background enters DraggingPlayhead, sets currentTime to the time of the
\* pointer's pixel, and clears both selections.
C4_ScrubFromEveryState ==
    lastEvent.op = "scrubStart"
        => /\ dragState = PlayheadDrag
           /\ currentTime = TimeOfPixel(lastEvent.x, timelineScale,
                                        timelineDuration(clips, zooms))
           /\ selectedClipId = 0
           /\ selectedZoomId = 0

\* C4 amended: from Idle and from DraggingPlayhead the press enters
\* DraggingPlayhead, sets currentTime to the time of the pointer's pixel
\* (kept within the track) and clears both selections; from DraggingClip and
\* DraggingZoom it only ends that drag: the state is Idle, and currentTime
\* and both selections are unchanged.
C4_ScrubUnlessItemDrag ==
    [][ lastEvent'.op = "scrubStart"
          => IF dragState.type \in ItemDrags
             THEN /\ dragState' = NoDrag
                  /\ listener' = NoDrag
                  /\ currentTime' = currentTime
                  /\ selectedClipId' = selectedClipId
                  /\ selectedZoomId' = selectedZoomId
             ELSE /\ dragState' = PlayheadDrag
                  /\ listener' = PlayheadDrag
                  /\ currentTime' = TimeOfPixel(lastEvent'.x, timelineScale,
                                                timelineDuration(clips, zooms))
                  /\ selectedClipId' = 0
                  /\ selectedZoomId' = 0 ]_vars

\* A press on the background during a clip or zoom drag left the selection
\* and ended the drag.
C4_Witness ==
    /\ lastEvent.op = "scrubStart"
    /\ lastEvent.prev.type \in ItemDrags
    /\ dragState = NoDrag
    /\ selectedClipId # 0 \/ selectedZoomId # 0

----------------------------------------------------------------------------
(* C5 *)

\* C5: the handlers attached are those of the one drag state, and a press on
\* a clip or zoom that is not the target and mode of the drag in progress
\* replaces that drag by the new one: no clip or zoom changes, and the new
\* drag holds the pressed item's startTime and duration of that moment.
C5_NewDragReplacesOld ==
    [][ /\ listener' = dragState'
        /\ (Pressed(lastEvent') /\ ~SameTarget(lastEvent', dragState))
              => LET ev == lastEvent'
                     item == ItemWithId(IF ev.type = "clip" THEN clips ELSE zooms, ev.id)
                 IN  /\ dragState' = [type |-> ev.type, id |-> ev.id, mode |-> ev.mode,
                                      startX |-> ev.x,
                                      initialStart |-> item.startTime,
                                      initialDuration |-> item.duration]
                     /\ clips' = clips
                     /\ zooms' = zooms ]_vars

\* A press during another drag began a drag whose initial values are those
\* the earlier drag had left, not those the earlier drag began with.
C5_Witness ==
    /\ Pressed(lastEvent)
    /\ lastEvent.prev.type \in ItemDrags
    /\ ~SameTarget(lastEvent, lastEvent.prev)
    /\ lastEvent.prev.type = dragState.type
    /\ lastEvent.prev.id = dragState.id
    /\ <<dragState.initialStart, dragState.initialDuration>>
          # <<lastEvent.prev.initialStart, lastEvent.prev.initialDuration>>

----------------------------------------------------------------------------
(* C6 *)

\* C6: during a move drag every pointer move sets the dragged item's start
\* to max(0, start at drag begin + (pointerX - startX) / pixelsPerSecond)
\* and changes nothing else of the timeline.
C6_MoveFromInitialStart ==
    [][ (lastEvent'.op = "mouseMove" /\ dragState.type \in ItemDrags
         /\ dragState.mode = "move")
          => LET ds == dragState
                 began == Dragged(ds, hist.clips, hist.zooms)
                 start == IF HasId(began, ds.id)
                          THEN ItemWithId(began, ds.id).startTime
                          ELSE 0
             IN  /\ Dragged(ds, clips', zooms')
                      = WithStart(Dragged(ds, clips, zooms), ds.id,
                                  Max(0, start + DeltaT(lastEvent'.x, ds.startX, timelineScale)))
                 /\ NotDragged(ds, clips', zooms') = NotDragged(ds, clips, zooms) ]_vars

\* A pointer move of a move drag has put the item away from where the drag
\* began.
C6_Witness ==
    /\ lastEvent.op = "mouseMove"
    /\ dragState.type \in ItemDrags
    /\ dragState.mode = "move"
    /\ hist.pure /\ hist.moved
    /\ HasId(Dragged(dragState, clips, zooms), dragState.id)
    /\ ItemWithId(Dragged(dragState, clips, zooms), dragState.id).startTime
          # dragState.initialStart

----------------------------------------------------------------------------
(* C7 *)

\* C7: during a resize drag every pointer move sets the dragged item's
\* duration to max(0.5, duration at drag begin + (pointerX - startX) /
\* pixelsPerSecond) and changes nothing else of the timeline; +80 px at
\* 80 px/s add exactly one second, and a result below 0.5 s becomes 0.5 s.
C7_ResizeFromInitialDuration ==
    [][ (lastEvent'.op = "mouseMove" /\ dragState.type \in ItemDrags
         /\ dragState.mode = "resize")
          => LET ds == dragState
                 began == Dragged(ds, hist.clips, hist.zooms)
                 dur == IF HasId(began, ds.id)
                        THEN ItemWithId(began, ds.id).duration
                        ELSE 0
                 delta == DeltaT(lastEvent'.x, ds.startX, timelineScale)
                 after == Dragged(ds, clips', zooms')
             IN  /\ after = WithDuration(Dragged(ds, clips, zooms), ds.id,
                                         Max(HalfSecond, dur + delta))
                 /\ NotDragged(ds, clips', zooms') = NotDragged(ds, clips, zooms)
                 /\ HasId(after, ds.id) =>
                      /\ (lastEvent'.x - ds.startX = 80 /\ timelineScale = 80)
                            => ItemWithId(after, ds.id).duration = dur + Seconds(1)
                      /\ (dur + delta < HalfSecond)
                            => ItemWithId(after, ds.id).duration = HalfSecond ]_vars

\* A zoom's resize handle was dragged by +80 px at 80 px/s.
C7_Witness ==
    /\ lastEvent.op = "mouseMove"
    /\ dragState.type = "zoom"
    /\ dragState.mode = "resize"
    /\ timelineScale = 80
    /\ lastEvent.x - dragState.startX = 80
    /\ HasId(zooms, dragState.id)
    /\ ItemWithId(zooms, dragState.id).duration = dragState.initialDuration + Seconds(1)

----------------------------------------------------------------------------
(* Splits *)

\* Half-open membership of t in the interval of c.
Covers(c, t) == c.startTime <= t /\ t < c.startTime + c.duration

\* The clip a split at t is about: the first in list order that strictly
\* contains t (0 if none does).
SplitTarget(cs, t) ==
    IF \E i \in DOMAIN cs : cs[i].startTime < t /\ t < cs[i].startTime + cs[i].duration
    THEN CHOOSE i \in DOMAIN cs :
            /\ cs[i].startTime < t /\ t < cs[i].startTime + cs[i].duration
            /\ \A j \in DOMAIN cs :
                  (cs[j].startTime < t /\ t < cs[j].startTime + cs[j].duration) => i <= j
    ELSE 0

\* A split at t is valid: t is strictly inside its clip and at least 0.1 s
\* from both boundaries.
ValidSplit(cs, t) ==
    LET k == SplitTarget(cs, t)
    IN  /\ k # 0
        /\ t - cs[k].startTime >= MinSplit
        /\ cs[k].startTime + cs[k].duration - t >= MinSplit

----------------------------------------------------------------------------
(* C8 *)

\* C8: a valid split of the clip [s, s+d) at t leaves, in its place, the
\* clips [s, t) and [t, s+d): the durations sum to d, and every instant of
\* [s, s+d) lies in exactly one of the two.
C8_SplitPartitionsInterval ==
    [][ (lastEvent'.op = "split" /\ ValidSplit(clips, currentTime))
          => LET k == SplitTarget(clips, currentTime)
                 c == clips[k]
                 a == clips'[k]
                 b == clips'[k + 1]
             IN  /\ Len(clips') = Len(clips) + 1
                 /\ a.startTime = c.startTime
                 /\ a.startTime + a.duration = currentTime
                 /\ b.startTime = currentTime
                 /\ b.startTime + b.duration = c.startTime + c.duration
                 /\ a.duration + b.duration = c.duration
                 /\ \A t \in c.startTime .. (c.startTime + c.duration - 1) :
                       Covers(a, t) # Covers(b, t)
                 /\ \A t \in {c.startTime - 1, c.startTime + c.duration} :
                       ~Covers(a, t) /\ ~Covers(b, t) ]_vars

\* A split has left two clips that meet at the playhead.
C8_Witness ==
    /\ lastEvent.op = "split"
    /\ \E k \in 1..(Len(clips) - 1) :
          /\ clips[k].startTime + clips[k].duration = currentTime
          /\ clips[k + 1].startTime = currentTime
          /\ clips[k].duration >= MinSplit
          /\ clips[k + 1].duration >= MinSplit
          /\ clips[k + 1].id = nextId - 1

----------------------------------------------------------------------------
(* C9 *)

\* C9: a valid split puts, at the position of the clip it splits, the first
\* half with the id of that clip and right after it the second half with an
\* id no clip had; both have its type and name; every other clip and every
\* zoom is as before.  {start 0, duration 10} split at 4 s gives
\* {start 0, duration 4} and {start 4, duration 6}.
C9_SplitReplacesInPlace ==
    [][ (lastEvent'.op = "split" /\ ValidSplit(clips, currentTime))
          => LET k == SplitTarget(clips, currentTime)
                 c == clips[k]
                 a == clips'[k]
                 b == clips'[k + 1]
             IN  /\ Len(clips') = Len(clips) + 1
                 /\ a.id = c.id
                 /\ \A i \in DOMAIN clips : clips[i].id # b.id
                 /\ a.type = c.type /\ b.type = c.type
                 /\ a.name = c.name /\ b.name = c.name
                 /\ \A i \in 1..(k - 1) : clips'[i] = clips[i]
                 /\ \A i \in (k + 1)..Len(clips) : clips'[i + 1] = clips[i]
                 /\ zooms' = zooms
                 /\ (c.startTime = 0 /\ c.duration = Seconds(10)
                        /\ currentTime = Seconds(4))
                      => /\ a.startTime = 0 /\ a.duration = Seconds(4)
                         /\ b.startTime = Seconds(4) /\ b.duration = Seconds(6) ]_vars

\* {start 0, duration 10} has been split at 4 s.
C9_Witness ==
    /\ lastEvent.op = "split"
    /\ currentTime = Seconds(4)
    /\ Len(clips) = 2
    /\ clips[1].startTime = 0 /\ clips[1].duration = Seconds(4)
    /\ clips[2].startTime = Seconds(4) /\ clips[2].duration = Seconds(6)
    /\ clips[1].id # clips[2].id
    /\ clips[1].type = clips[2].type /\ clips[1].name = clips[2].name

----------------------------------------------------------------------------
(* C10 *)

\* C10: a split at a time that no clip strictly contains, or that is less
\* than 0.1 s from a boundary of the clip it is about, changes nothing: not
\* the clips, the zooms, the selection, the drag state or currentTime.
C10_DegenerateSplitIsNoOp ==
    [][ (lastEvent'.op = "split" /\ ~ValidSplit(clips, currentTime))
          => /\ clips' = clips
             /\ zooms' = zooms
             /\ selectedClipId' = selectedClipId
             /\ selectedZoomId' = selectedZoomId
             /\ dragState' = dragState
             /\ listener' = listener
             /\ currentTime' = currentTime
             /\ nextId' = nextId ]_vars

\* A split was asked for less than 0.1 s after the start of the clip that
\* still strictly contains the playhead.
C10_Witness ==
    /\ lastEvent.op = "split"
    /\ SplitTarget(clips, currentTime) # 0
    /\ currentTime - clips[SplitTarget(clips, currentTime)].startTime < MinSplit
    /\ nextId = 2

----------------------------------------------------------------------------
(* Active zoom, active clip, timeline duration *)

\* The times at which the zoom list is probed: the current time and the
\* ticks at and next to the two ends of every zoom.
ProbeTimes(zs) ==
    {currentTime}
    \cup { t \in UNION { { zs[i].startTime - 1, zs[i].startTime, zs[i].startTime + 1,
                            zs[i].startTime + zs[i].duration - 1,
                            zs[i].startTime + zs[i].duration,
                            zs[i].startTime + zs[i].duration + 1 } : i \in DOMAIN zs }
           : t >= 0 }

\* C11: for every list of zoom events, overlapping or not, and every time t,
\* the zoom reported active is the first event in list order with
\* startTime <= t <= startTime + duration (the upper bound is closed), and
\* none is reported when no event contains t.
C11_FirstContainingZoomIsActive ==
    \A t \in ProbeTimes(zooms) :
        LET Contains(i) == /\ zooms[i].startTime <= t
                           /\ t <= zooms[i].startTime + zooms[i].duration
            k == activeZoomIndex(zooms, t)
        IN  /\ k \in 0..Len(zooms)
            /\ (k = 0) <=> ~(\E i \in DOMAIN zooms : Contains(i))
            /\ k # 0 => Contains(k) /\ \A j \in 1..(k - 1) : ~Contains(j)
            /\ activeZoom(zooms, t) = IF k = 0 THEN NoZoom ELSE zooms[k]

\* Two zooms overlap at the current time, which is the last instant of the
\* first of them, and the first is the active one.
C11_Witness ==
    /\ Len(zooms) = 2
    /\ currentTime = zooms[1].startTime + zooms[1].duration
    /\ zooms[2].startTime < currentTime
    /\ currentTime < zooms[2].startTime + zooms[2].duration
    /\ activeZoom(zooms, currentTime) = zooms[1]

\* Identities are handed out in increasing order, so the clip created last
\* is the one with the greatest id.
InClip(c, t) == c.startTime <= t /\ t < c.startTime + c.duration

\* C12 as stated: the active clip is the most recently created clip among
\* those whose half-open interval contains the current time, and there is
\* none when no clip contains it.
C12_ActiveClipMostRecentlyCreated ==
    LET k == activeClipIndex(clips, currentTime)
    IN  /\ (k = 0) <=> ~(\E i \in DOMAIN clips : InClip(clips[i], currentTime))
        /\ k # 0 => /\ InClip(clips[k], currentTime)
                    /\ \A j \in DOMAIN clips :
                          InClip(clips[j], currentTime) => clips[j].id <= clips[k].id

\* C12, amended: the active clip is the last clip in list order among those
\* whose half-open interval contains the current time, and there is none
\* when no clip contains it.
C12_ActiveClipLastInList ==
    LET k == activeClipIndex(clips, currentTime)
    IN  /\ (k = 0) <=> ~(\E i \in DOMAIN clips : InClip(clips[i], currentTime))
        /\ k # 0 => /\ InClip(clips[k], currentTime)
                    /\ \A j \in (k + 1)..Len(clips) : ~InClip(clips[j], currentTime)
        /\ activeClip(clips, currentTime) = IF k = 0 THEN NoClip ELSE clips[k]

\* After a split, two clips contain the current time and the active one is
\* the later in the list although the other was created after it.
C12_Witness ==
    \E i, j \in DOMAIN clips :
        /\ i < j
        /\ InClip(clips[i], currentTime)
        /\ InClip(clips[j], currentTime)
        /\ clips[i].id > clips[j].id
        /\ activeClip(clips, currentTime) = clips[j]

\* C13: the timeline duration is max(15 s, furthest clip end, furthest zoom
\* end): never below 15 s, never below the end of a clip or of a zoom, and
\* equal to one of these.
C13_TimelineDurationIsMax ==
    LET d == timelineDuration(clips, zooms)
        ClipEnd(i) == clips[i].startTime + clips[i].duration
        ZoomEnd(i) == zooms[i].startTime + zooms[i].duration
    IN  /\ d >= 15 * TicksPerSecond
        /\ \A i \in DOMAIN clips : d >= ClipEnd(i)
        /\ \A i \in DOMAIN zooms : d >= ZoomEnd(i)
        /\ \/ d = 15 * TicksPerSecond
           \/ \E i \in DOMAIN clips : d = ClipEnd(i)
           \/ \E i \in DOMAIN zooms : d = ZoomEnd(i)

\* A zoom was updated to end after 15 s and after every clip.
C13_Witness ==
    /\ lastEvent.op = "updateZoom"
    /\ timelineDuration(clips, zooms) > 15 * TicksPerSecond
    /\ \A i \in DOMAIN clips :
          clips[i].startTime + clips[i].duration < timelineDuration(clips, zooms)
    /\ \E i \in DOMAIN zooms :
          zooms[i].startTime + zooms[i].duration = timelineDuration(clips, zooms)

----------------------------------------------------------------------------
(* Camera targets *)

\* What the canvas renders with.
CanvasZoom == activeZoom(zooms, currentTime)
CanvasDimensions ==
    getContainerDimensions(aspectRatio, activeClip(clips, currentTime),
                           showWindowFrame, contentScale)

\* clamp(v, lo, hi)
Clamp(v, lo, hi) == IF v < lo THEN lo ELSE IF v > hi THEN hi ELSE v
Abs(v) == IF v < 0 THEN -v ELSE v

\* -((coord - 50) / 100 * dimension) * scale and (dimension / 2) * (scale - 1),
\* in the units of a translation target.
IdealTranslation(coord, dimension, scale10) == -((coord - 50) * dimension * scale10)
TranslationLimit(dimension, scale10) == 50 * dimension * (scale10 - 10)

\* C14: while a zoom with x and y in [0,100] and scale >= 1 is active, the
\* target translation on each axis is the ideal translation clamped to
\* plus and minus (dimension / 2) * (scale - 1), so its absolute value never
\* exceeds that limit.
C14_TranslationIsClamped ==
    LET z == CanvasZoom
        d == CanvasDimensions
    IN  (z # NoZoom /\ z.x \in 0..100 /\ z.y \in 0..100 /\ z.scale10 >= 10) =>
            /\ targetCamX = Clamp(IdealTranslation(z.x, d.width, z.scale10),
                                  -TranslationLimit(d.width, z.scale10),
                                  TranslationLimit(d.width, z.scale10))
            /\ targetCamY = Clamp(IdealTranslation(z.y, d.height, z.scale10),
                                  -TranslationLimit(d.height, z.scale10),
                                  TranslationLimit(d.height, z.scale10))
            /\ Abs(targetCamX) <= TranslationLimit(d.width, z.scale10)
            /\ Abs(targetCamY) <= TranslationLimit(d.height, z.scale10)

\* An off-centre zoom is active and the clamp cuts the ideal translation on
\* both axes.
C14_Witness ==
    /\ CanvasZoom # NoZoom
    /\ CanvasZoom.scale10 > 10
    /\ Abs(IdealTranslation(CanvasZoom.x, CanvasDimensions.width, CanvasZoom.scale10))
          > TranslationLimit(CanvasDimensions.width, CanvasZoom.scale10)
    /\ Abs(IdealTranslation(CanvasZoom.y, CanvasDimensions.height, CanvasZoom.scale10))
          > TranslationLimit(CanvasDimensions.height, CanvasZoom.scale10)
    /\ Abs(targetCamX) = TranslationLimit(CanvasDimensions.width, CanvasZoom.scale10)
    /\ Abs(targetCamY) = TranslationLimit(CanvasDimensions.height, CanvasZoom.scale10)

\* The zoom of the example of C15: start 2 s, duration 3 s, centre, scale 2.
IsExampleZoom(z) ==
    /\ z.startTime = 2 * TicksPerSecond
    /\ z.duration = 3 * TicksPerSecond
    /\ z.x = 50 /\ z.y = 50 /\ z.scale10 = 20

\* C15: while a zoom with x = 50 and y = 50 is active the target translation
\* is (0,0) and the target scale is the scale of the zoom, whatever the scale
\* and the container; on the 15 s timeline with the zoom {start 2, duration
\* 3, x 50, y 50, scale 2} the targets at 3.5 s are (0,0) and 2.
C15_CentredZoomKeepsCentre ==
    /\ (CanvasZoom # NoZoom /\ CanvasZoom.x = 50 /\ CanvasZoom.y = 50) =>
          /\ targetCamX = 0
          /\ targetCamY = 0
          /\ targetScaleMV = 10 * CanvasZoom.scale10
    /\ ( /\ Len(zooms) = 1
         /\ IsExampleZoom(zooms[1])
         /\ timelineDuration(clips, zooms) = 15 * TicksPerSecond
         /\ 2 * currentTime = 7 * TicksPerSecond ) =>
          /\ targetCamX = 0
          /\ targetCamY = 0
          /\ targetScaleMV = 200

\* The example of C15: the playhead is at 3.5 s inside the example zoom.
C15_Witness ==
    /\ Len(zooms) = 1
    /\ IsExampleZoom(zooms[1])
    /\ timelineDuration(clips, zooms) = 15 * TicksPerSecond
    /\ 2 * currentTime = 7 * TicksPerSecond
    /\ targetScaleMV = 200

\* C16: whenever no zoom is active the target is translation (0,0) with
\* scale contentScale; and whenever the active zoom has changed from one
\* event to another the targets are those computed from the new event.
C16_TargetsFollowActiveZoom ==
    /\ CanvasZoom = NoZoom =>
          /\ targetCamX = 0
          /\ targetCamY = 0
          /\ targetScaleMV = contentScale
    /\ (CanvasZoom # NoZoom /\ lastEvent.zoom # 0 /\ lastEvent.zoom # CanvasZoom.id) =>
          /\ targetCamX = CamTarget(CanvasZoom, CanvasZoom.x, CanvasDimensions.width)
          /\ targetCamY = CamTarget(CanvasZoom, CanvasZoom.y, CanvasDimensions.height)
          /\ targetScaleMV = ScaleTarget(CanvasZoom, contentScale)

\* The last event moved the playhead out of one zoom into another whose
\* targets differ from the resting ones.
C16_Witness ==
    /\ CanvasZoom # NoZoom
    /\ lastEvent.zoom # 0
    /\ lastEvent.zoom # CanvasZoom.id
    /\ targetScaleMV # contentScale
    /\ targetCamX # 0

\* The active zoom was removed or all zooms were cleared, and the targets
\* are back at rest.
C16_WitnessRemoved ==
    /\ lastEvent.op \in {"removeZoom", "clearZooms"}
    /\ lastEvent.zoom # 0
    /\ CanvasZoom = NoZoom
    /\ targetScaleMV = contentScale

\* C17: the x, y and scale springs use one and the same physics: the zoom
\* profile (60, 20, 1.5) exactly when a zoom is active, and the configured
\* PhysicsConfig exactly when none is.
C17_OnePhysicsForAllChannels ==
    /\ springPhysics.camX = springPhysics.camY
    /\ springPhysics.camY = springPhysics.springScale
    /\ CanvasZoom # NoZoom =>
          springPhysics.camX = [stiffness |-> 60, damping |-> 20, mass10 |-> 15]
    /\ CanvasZoom = NoZoom => springPhysics.camX = config

\* A zoom is active while the configured physics differs from the zoom
\* profile, and the springs run on the zoom profile.
C17_Witness ==
    /\ CanvasZoom # NoZoom
    /\ config # zoomPhysics
    /\ config # INITIAL_CONFIG
    /\ springPhysics.camX = zoomPhysics
    /\ springPhysics.springScale = zoomPhysics

----------------------------------------------------------------------------
(* Export and recording runs *)

\* C18: in every export run, on the recorder path and on the backend path,
\* the playback the export starts runs only after media capture has
\* started: the timeline is never playing for the export while its
\* recorder has not been started.
C18_PlaybackOnlyAfterCaptureStarted ==
    (exportRun.pc = "awaitBlob" /\ isPlaying) => capture.recorder # "none"

\* The steps an export takes without anybody's help once it is on its way:
\* animation frames, timers, replies of the main process, settled media
\* requests, the stop event of a stopped recorder, the settled promise.
ExportProgress ==
    \/ \E deltaTime \in PlaybackDeltas : Animate(deltaTime)
    \/ \E result \in BoundsResults : CaptureGetWindowBounds(result)
    \/ \E ok \in BOOLEAN : CaptureStartMouseTracking(ok)
    \/ CaptureDelayElapsed
    \/ \E result \in SourceResults : CaptureGetDesktopSources(result)
    \/ \E result \in StreamResults : CaptureGetStream(result)
    \/ \E hasChunks \in BOOLEAN : ExportRecorderStopped(hasChunks)
    \/ HandleExportDelayElapsed
    \/ ExportBlobSettled
    \/ \E report \in ProgressReports : BackendProgress(report)
    \/ \E reply \in ProcessingReplies : BackendProcessed(reply)

\* C19: an export whose playback has reached the end of the timeline leaves
\* Capturing: when it can take no further step of its own it is over, with
\* pointer tracking stopped, the stream stopped, and the artifact delivered
\* or a failure reported.
C19_EndedExportLeavesCapturing ==
    (exportRun.playbackEnded /\ ~ENABLED ExportProgress) =>
        /\ exportRun.pc = "idle"
        /\ exportRun.outcome \in {"delivered", "alert"}
        /\ capture.stream # "live"
        /\ capture.stopMouseTracking # "set"

\* C20: after a failed export capture or a failed recording, no stream
\* track the run acquired is live, the pointer tracking it started has been
\* stopped and the pointer-sample listener it registered has been removed.
C20_FailedRunReleasesEverything ==
    /\ capture.promise \in {"NotAllowedError", "Error"} =>
          /\ capture.stream # "live"
          /\ capture.stopMouseTracking # "set"
          /\ capture.stopMouseListener # "set"
    /\ \A i \in DOMAIN recordings :
          recordings[i].outcome \in {"alert", "silent"} => recordings[i].stream # "live"

\* C21: a refused capture permission (NotAllowedError) is a silent no-op:
\* the export it ended shows no error and leaves the editor not exporting
\* and not in capture mode, and the recording it ended shows no error and
\* has neither a stream nor a recorder.
C21_RefusedPermissionIsSilentNoOp ==
    /\ (exportRun.pc = "idle" /\ capture.promise = "NotAllowedError") =>
          /\ exportRun.outcome = "silent"
          /\ ~isExporting
          /\ ~isCaptureMode
    /\ \A i \in DOMAIN recordings :
          (recordings[i].pc = "idle" /\ recordings[i].outcome = "silent") =>
              /\ recordings[i].stream = "none"
              /\ recordings[i].recorder = "none"

\* The streams that are live, of recordings and of the export capture, and
\* the recording sessions whose recorder is recording.
LiveStreams ==
    Cardinality({i \in DOMAIN recordings : recordings[i].stream = "live"})
        + (IF capture.stream = "live" THEN 1 ELSE 0)

ActiveRecordings ==
    Cardinality({i \in DOMAIN recordings : recordings[i].recorder = "recording"})

\* C22: in every reachable state at most one recording session is active
\* and at most one capture stream, of a recording or of an export, is live.
C22_OneSessionOneStream ==
    /\ ActiveRecordings <= 1
    /\ LiveStreams <= 1


----------------------------------------------------------------------------
(* Playback *)

\* The playhead after a frame that found it at t and d of playback elapsed.
Advanced(t, d) == IF t + d >= timelineDuration(clips, zooms) THEN 0 ELSE t + d

\* C23: while playback is paused previousTimeRef holds no time and an
\* animation frame leaves currentTime alone; the first frame of a play
\* session advances currentTime by 0, and every later frame advances it by
\* exactly the time since the previous frame of the same session (back to 0
\* at the end of the timeline).
C23_FramesAdvanceByElapsed ==
    [][ /\ ~isPlaying' => ~previousTimeRef'
        /\ lastEvent'.op = "frame" =>
              currentTime' = IF ~isPlaying \/ sessionFrame = NoFrame
                             THEN currentTime
                             ELSE Advanced(currentTime, now - sessionFrame) ]_vars

\* A frame has advanced the playhead in a play session that began after a
\* pause in which time went by.
C23_Witness ==
    /\ lastEvent.op = "frame"
    /\ isPlaying
    /\ currentTime = Seconds(2)
    /\ now = Seconds(15)

----------------------------------------------------------------------------
(* Store invariants *)

\* C24: in every reachable state every zoom and every clip has
\* startTime >= 0 and duration >= 0.5 s.
C24_ItemsKeepMinimumDuration ==
    /\ \A i \in DOMAIN clips :
          clips[i].startTime >= 0 /\ clips[i].duration >= HalfSecond
    /\ \A i \in DOMAIN zooms :
          zooms[i].startTime >= 0 /\ zooms[i].duration >= HalfSecond

----------------------------------------------------------------------------
(* Processing failures *)

\* The step at which handleBackendExport learns that the job has failed.
JobFailedStep ==
    /\ exportRun.pc = "processing"
    /\ exportRun'.pc = "idle"
    /\ exportRun'.reply.status = "failed"

\* C25: when the processing job reports status failed, the export ends
\* with an error carrying the service's message, and the local state is
\* that before the export: not exporting, not in capture mode, progress 0,
\* status text empty, playback stopped at time 0, clips and zooms untouched.
C25_FailedJobResetsExport ==
    [][ JobFailedStep =>
          /\ exportRun'.outcome = "alert"
          /\ exportRun'.reply.error # "" => exportRun'.message = exportRun'.reply.error
          /\ ~isExporting' /\ ~isCaptureMode'
          /\ exportProgress' = 0 /\ exportStatus' = ""
          /\ ~isPlaying' /\ currentTime' = 0
          /\ clips' = clips /\ zooms' = zooms ]_vars

\* A job that had reported progress has failed with a message.
C25_Witness ==
    /\ exportRun.pc = "idle"
    /\ exportRun.path = "backend"
    /\ exportRun.reply = [status |-> "failed", error |-> "Cursor overlay failed"]
    /\ exportRun.message = "Cursor overlay failed"
    /\ exportProgress = 0
    /\ ~isExporting

\* C26: The snapshot written by a save holds no blob: source: a clip with
\* a blob: source is written without its source, every other clip, the zooms
\* and the settings are written as they are, and the clips of the editor are
\* not changed by the save.
SaveStep ==
    lastEvent'.op = "saveProject" /\ lastEvent'.mode = "saved" /\ steps' = steps + 1

C26_SnapshotOmitsBlobSources ==
    [][ SaveStep =>
          /\ savedProject'.saved
          /\ DOMAIN savedProject'.clips = DOMAIN clips
          /\ \A i \in DOMAIN clips :
                /\ ~StartsWithBlob(savedProject'.clips[i].source)
                /\ savedProject'.clips[i] =
                      IF StartsWithBlob(clips[i].source)
                      THEN [clips[i] EXCEPT !.source = NoSource]
                      ELSE clips[i]
          /\ savedProject'.zooms = zooms
          /\ savedProject'.config = config
          /\ savedProject'.contentScale = contentScale
          /\ savedProject'.aspectRatio = aspectRatio
          /\ savedProject'.showWindowFrame = showWindowFrame
          /\ clips' = clips ]_vars

\* A project with a loaded clip and a recorded clip has just been saved.
C26_Witness ==
    /\ lastEvent.op = "saveProject"
    /\ lastEvent.mode = "saved"
    /\ savedProject.saved
    /\ \E i \in DOMAIN clips : StartsWithBlob(clips[i].source)
    /\ \E i \in DOMAIN savedProject.clips :
          /\ savedProject.clips[i].name = "Screen Recording"
          /\ savedProject.clips[i].source = NoSource
    /\ \E i \in DOMAIN savedProject.clips :
          savedProject.clips[i].source = <<"https:", "//media.example/recording.webm">>
    /\ Len(savedProject.zooms) = 2

\* C27: When the call for suggestions gives an empty list (no API key, no
\* frame, a failed request, or a reply with no zoom: each gives the empty
\* list), the zoom list is left as it was and the analysing flag is false
\* again.
EmptySuggestions ==
    /\ analysis.pc = "analyzing"
    /\ analysis'.pc = "idle"
    /\ (~analysis'.outcome.apiKey \/ analysis'.outcome.frames = 0
        \/ analysis'.outcome.response = "rejected" \/ analysis'.outcome.count = 0)

C27_EmptySuggestionsChangeNothing ==
    [][ EmptySuggestions =>
          /\ analyzeVideoForZooms(analysis'.outcome, nextId) = << >>
          /\ zooms' = zooms
          /\ ~isAnalyzingZooms' ]_vars

\* A request made with two zooms on the timeline has ended after a rejected
\* service call.
C27_Witness ==
    /\ analysis.pc = "idle"
    /\ lastEvent.op = "suggestions"
    /\ analysis.outcome.response = "rejected"
    /\ Len(zooms) = 2
    /\ ~isAnalyzingZooms

\* The scale used by the Auto container, hundredths.
EffectiveScale == Min(contentScale, 100)

AutoWithClip == layout.pc = "measured" /\ aspectRatio = "Auto" /\ layout.clip # NoClip

\* W * (s * (R + H / contentWidth) + (1 - s)), multiplied by contentWidth
AutoHeightFormula ==
    layout.container.height * nativeWidth(layout.clip) =
        (Px(800) \div 100)
        * (EffectiveScale * (nativeHeight(layout.clip) + headerHeight(showWindowFrame))
           + (100 - EffectiveScale) * nativeWidth(layout.clip))

\* C28 as stated: for the Auto policy with an active clip the container is
\* 800 wide and W * (s * (R + H / contentWidth) + (1 - s)) high with
\* s = min(contentScale, 1); contentScale 1 gives the height W * R,
\* contentScale 0 the height W, and a contentScale of 1 or more the size of
\* contentScale 1.
C28_AutoContainerAsStated ==
    AutoWithClip =>
        /\ layout.container.width = Px(800)
        /\ AutoHeightFormula
        /\ contentScale = 100 =>
              layout.container.height * nativeWidth(layout.clip)
                  = Px(800) * nativeHeight(layout.clip)
        /\ contentScale = 0 => layout.container.height = Px(800)
        /\ contentScale >= 100 =>
              layout.container = getContainerDimensions("Auto", layout.clip,
                                                        showWindowFrame, 100)

\* C28, amended: as stated, except that contentScale 1 gives the height
\* W * (R + H / contentWidth), which is W * R when the window frame is hidden.
C28_AutoContainer ==
    AutoWithClip =>
        /\ layout.container.width = Px(800)
        /\ AutoHeightFormula
        /\ contentScale = 100 =>
              layout.container.height * nativeWidth(layout.clip) =
                  Px(800) * (nativeHeight(layout.clip) + headerHeight(showWindowFrame))
        /\ contentScale = 100 /\ ~showWindowFrame =>
              layout.container.height * nativeWidth(layout.clip)
                  = Px(800) * nativeHeight(layout.clip)
        /\ contentScale = 0 => layout.container.height = Px(800)
        /\ contentScale >= 100 =>
              layout.container = getContainerDimensions("Auto", layout.clip,
                                                        showWindowFrame, 100)

\* The Auto container of a 1920x1080 recording at contentScale 2.5 with the
\* window frame shown: 800 by 463 1/3.
C28_Witness ==
    /\ AutoWithClip
    /\ contentScale = 250
    /\ showWindowFrame
    /\ layout.clip.width = 1920 /\ layout.clip.height = 1080
    /\ layout.container = [width |-> Px(800), height |-> Px(463) + DimUnit \div 3]

\* C29: with an active clip, the fitted window is no wider than the
\* container and, header included, no higher; its width is to its content
\* height as the native width to the native height; it is the fit by width
\* unless the total height of that fit exceeds the container height, and then
\* the fit by height.
FitByWidthTotal ==
    (layout.container.width * nativeHeight(layout.clip)) \div nativeWidth(layout.clip)
        + Px(headerHeight(showWindowFrame))

\* width / contentHeight = nativeWidth / nativeHeight, to the 1/DimUnit px
AspectKept ==
    \E d \in {layout.fitted.width * nativeHeight(layout.clip)
                  - layout.fitted.contentHeight * nativeWidth(layout.clip)} :
        /\ d < Max(nativeWidth(layout.clip), nativeHeight(layout.clip))
        /\ -d < Max(nativeWidth(layout.clip), nativeHeight(layout.clip))

C29_FittedWithinContainer ==
    (layout.pc = "measured" /\ layout.clip # NoClip) =>
        /\ layout.fitted.width <= layout.container.width
        /\ layout.fitted.height <= layout.container.height
        /\ layout.fitted.height = layout.fitted.contentHeight + Px(headerHeight(showWindowFrame))
        /\ AspectKept
        /\ IF FitByWidthTotal > layout.container.height
           THEN layout.fitted.height = layout.container.height
           ELSE layout.fitted.width = layout.container.width

\* The requests of the call so far, and the reply of each.
Call(i) == job.calls[i].call
Reply(i) == job.calls[i].reply

\* submit, polls, download, cleanup: in this order, each for its reason.
CallOrder ==
    /\ \A i \in DOMAIN job.calls : (Call(i) = "submit") <=> (i = 1)
    /\ \A i \in DOMAIN job.calls :
          Call(i) = "poll" =>
              \/ Call(i - 1) = "submit" /\ Reply(i - 1) = "ok"
              \/ Call(i - 1) = "poll" /\ Reply(i - 1) = "processing"
    /\ \A i \in DOMAIN job.calls :
          Call(i) = "download" => Call(i - 1) = "poll" /\ Reply(i - 1) = "completed"
    /\ \A i \in DOMAIN job.calls :
          Call(i) = "cleanup" => Call(i - 1) = "download" /\ Reply(i - 1) = "ok"
    /\ Cardinality({i \in DOMAIN job.calls : Call(i) = "cleanup"}) <= 1
    /\ \A i \in DOMAIN job.calls :
          Reply(i) \in {"failed", "rejected"} => i = Len(job.calls) /\ job.pc = "thrown"
    /\ job.pc = "returned" =>
          /\ Len(job.calls) >= 4
          /\ Call(Len(job.calls)) = "cleanup" /\ Reply(Len(job.calls)) = "ok"
          /\ job.result = "blob"

JobReported == job.server \in {"completed", "failed"}

CallEnded == job.pc \in {"returned", "thrown"}

\* C30: processVideoWithProgress submits, then polls, downloads only after
\* a poll that returned completed, then cleans up, then returns; it does not
\* poll after a completed or failed status, cleans up at most once and only
\* after a successful download, throws on a failed status, and ends once the
\* job has reported completed or failed.
C30_SubmitPollDownloadCleanup == []CallOrder /\ (JobReported ~> CallEnded)

\* A call that polled a processing job, then a completed one, and returned.
C30_Witness ==
    /\ job.pc = "returned"
    /\ Len(job.calls) = 5
    /\ Call(2) = "poll" /\ Reply(2) = "processing"
    /\ Call(3) = "poll" /\ Reply(3) = "completed"
    /\ Call(4) = "download" /\ Call(5) = "cleanup"
    /\ job.progress = 100

\* The capture whose buffer exportCursorData is: the last one begun.
OwnSample(i) == exportCursorData[i].by = capture.run

\* C31: every recorded pointer sample has x and y in [0, 1] and a time
\* >= 0 counted from the start of its capture, the times do not decrease
\* along the buffer, and the buffer of a capture holds only samples pushed by
\* that capture's own listener.
C31_SamplesOfOwnCapture ==
    /\ \A i \in DOMAIN exportCursorData :
          /\ exportCursorData[i].x \in 0..1000
          /\ exportCursorData[i].y \in 0..1000
          /\ exportCursorData[i].time \in 0..(now - capture.captureStart)
          /\ OwnSample(i)
    /\ \A i, j \in DOMAIN exportCursorData :
          i < j => exportCursorData[i].time <= exportCursorData[j].time

\* A pointer move and a release that come while the playhead is dragged.
PlayheadMove ==
    dragState.type = "playhead" /\ steps' = steps + 1 /\ lastEvent'.op = "mouseMove"

PlayheadRelease ==
    dragState.type = "playhead" /\ steps' = steps + 1 /\ lastEvent'.op = "mouseUp"

\* clamp(pointer px, 0, timelineDuration * pixelsPerSecond) / pixelsPerSecond
ClampedPointerTime(x) ==
    PxToTicks(Max(0, Min(x, TicksToPx(timelineDuration(clips, zooms), timelineScale))),
              timelineScale)

\* C32: while the playhead is dragged, a pointer move sets currentTime to the
\* pointer position clamped to the track and divided by the scale, a value in
\* [0, timelineDuration], and changes no clip and no zoom; a release ends the
\* drag and leaves currentTime as it is.
C32_PlayheadDrag ==
    [][/\ PlayheadMove =>
             /\ currentTime' = ClampedPointerTime(lastEvent'.x)
             /\ currentTime' \in 0..timelineDuration(clips, zooms)
             /\ clips' = clips
             /\ zooms' = zooms
       /\ PlayheadRelease =>
             /\ dragState' = NoDrag
             /\ currentTime' = currentTime
             /\ clips' = clips
             /\ zooms' = zooms]_vars

\* The playhead was dragged beyond the end of the track and released there.
C32_Witness ==
    /\ lastEvent.op = "mouseUp"
    /\ lastEvent.prev.type = "playhead"
    /\ dragState = NoDrag
    /\ ~isPlaying
    /\ currentTime = timelineDuration(clips, zooms)

\* C35: the playhead is within the timeline.
C35_CurrentTimeWithinTimeline ==
    currentTime \in 0..timelineDuration(clips, zooms)

\* An export ends with an alert: the capture failed (no source, the recorder
\* reported an error or could not be started, nothing was recorded) or the
\* processing failed.
ExportFails ==
    exportRun.pc # "idle" /\ exportRun'.pc = "idle" /\ exportRun'.outcome = "alert"

\* C33: when an export ends in failure the playback is halted: isPlaying is
\* false.
C33_FailedExportHaltsPlayback == [][ExportFails => ~isPlaying']_vars

\* At most one interval timer polls the pointer.
OneTimer == mainTracking.timers <= 1

\* A start request while tracking and a stop request while not tracking change
\* nothing.
RequestsIdempotent ==
    /\ mainTracking.mouseTrackingInterval => MainStarts(mainTracking) = mainTracking
    /\ ~mainTracking.mouseTrackingInterval => MainStops(mainTracking) = mainTracking

\* A message is sent only while the tracking is on.
SentWhileTracking ==
    [][mainTracking'.sent # mainTracking.sent
          => mainTracking.mouseTrackingInterval /\ mainTracking.timers > 0]_vars

\* The last two messages sent carry different positions.
NoRepeatedPosition ==
    Len(mainTracking.sent) = 2 => mainTracking.sent[1] # mainTracking.sent[2]

\* C34: in the main process at most one polling timer exists, a start while
\* tracking and a stop while not tracking are no-ops, no mouse-position message
\* is sent between a stop and the next start, and two consecutively sent
\* messages never carry the same position.
C34_OneTimerNoRepeats ==
    /\ [](OneTimer /\ RequestsIdempotent /\ NoRepeatedPosition)
    /\ SentWhileTracking

\* handleSplit has just divided a clip.
SplitDone == steps' = steps + 1 /\ lastEvent'.op = "split" /\ clips' # clips

\* C36: a successful split at currentTime divides the clip that is active at
\* that time: every other clip of the list is in the list afterwards,
\* unchanged.
C36_SplitDividesActiveClip ==
    [][SplitDone =>
          \A i \in DOMAIN clips :
             clips[i].id # activeClip(clips, currentTime).id
                => \E j \in DOMAIN clips' : clips'[j] = clips[i]]_vars

\* C37: at most one of the clip selection and the zoom selection is
\* non-empty.
C37_OneSelection == selectedClipId = 0 \/ selectedZoomId = 0

\* Items a selection or a drag may name.
ClipIds == {clips[i].id : i \in DOMAIN clips}

ZoomIds == {zooms[i].id : i \in DOMAIN zooms}

\* C38: a zoom selection, a clip selection and a clip or zoom drag each name
\* an item that is in the list.
C38_SelectionsExist ==
    /\ selectedZoomId # 0 => selectedZoomId \in ZoomIds
    /\ selectedClipId # 0 => selectedClipId \in ClipIds
    /\ dragState.type = "clip" => dragState.id \in ClipIds
    /\ dragState.type = "zoom" => dragState.id \in ZoomIds

\* The awaited suggestions arrive.
AnalysisCompletes == analysis.pc = "analyzing" /\ analysis'.pc = "idle"

ZoomSet(zs) == {zs[i] : i \in DOMAIN zs}

\* C39: when the suggestions arrive, a zoom that was added or edited since
\* they were asked for is still in the list, and a zoom that was deleted
\* since then is not back.
C39_EditsSurviveAnalysis ==
    [][AnalysisCompletes =>
          /\ ZoomSet(zooms) \ ZoomSet(analysis.zooms) \subseteq ZoomSet(zooms')
          /\ (ZoomSet(analysis.zooms) \ ZoomSet(zooms)) \cap ZoomSet(zooms') = {}]_vars

\* loadProject has just run on the stored project.
LoadDone == steps' = steps + 1 /\ lastEvent'.op = "loadProject"

\* C40: a load after a save to localStorage gives every persisted field the
\* value it had when it was saved (the clips with their blob: sources
\* stripped), sets currentTime to 0 and stops the playback.
C40_SaveLoadRoundTrip ==
    [][LoadDone =>
          /\ config' = savedProject.config
          /\ appearance' = savedProject.appearance
          /\ contentScale' = savedProject.contentScale
          /\ aspectRatio' = savedProject.aspectRatio
          /\ showWindowFrame' = savedProject.showWindowFrame
          /\ zooms' = savedProject.zooms
          /\ clips' = savedProject.clips
          /\ currentTime' = 0
          /\ ~isPlaying']_vars

====
